---- MODULE Spec2Model ----
(***************************************************************************)
(* Model of the in-memory store of codecrafters-redis-go (store/store.go):  *)
(* the list storage, the BLPOP waiter registry, the timeout goroutines and  *)
(* the cleanup goroutine, driven by connections that each run one command   *)
(* at a time (app/main.go handleConnection).                                *)
(*                                                                          *)
(* Granularity.  listStorage is read and written without any lock, so every *)
(* read and every write of it is a step of its own.  s.mu protects only     *)
(* s.waiters: a region that holds s.mu and touches nothing but s.waiters is *)
(* one step; notifyWaiters keeps s.mu while its BLPOP scan reads and writes *)
(* listStorage, so it spans several steps with mu held.                     *)
(***************************************************************************)
EXTENDS Integers, Sequences, FiniteSets, TLC

\* ---------------------------------------------------------------- bounds
Conns == {"c1", "c2", "c3"}
Keys == {"k1", "k2"}
\* number of values in the store at a time, when commands run concurrently
MaxVal == 2
\* number of values in the store at a time, when commands run one by one
SeqMaxVal == 3
\* number of values one push may carry
MaxPush == 2
\* number of waiters remembered at a time (registered, or being registered)
MaxWaiters == 2
\* the same, where one connection blocks and two push
WakeWaiters == 1
\* key lists a BLPOP may be called with
KeyLists == {<<"k1">>, <<"k1", "k2">>}
\* timeouts a BLPOP may be called with, in seconds
Timeouts == {0, 1}
\* counts an LPOP may be called with (besides no count)
PopCounts == {0, 2}
\* largest index, in absolute value, an LRANGE may be called with
MaxIdx == 4
\* milliseconds the clock runs
MaxTime == 3
\* keys and values of the string commands, and the PX arguments of SET
StrKeys == {"s1", "s2"}
StrValues == {"a", "b"}
PxValues == {0, 2}
PushCmds == {"RPUSH", "LPUSH"}

\* ------------------------------------------------------ program constants
CleanupCap == 100
ResponseCap == 1

NoConn == "none"

VARIABLES
    listStorage,    \* Store.listStorage: key -> list, only for present keys
    waiters,        \* Store.waiters: key -> queue of waiter ids
    waiterCleanup,  \* Store.waiterCleanup: buffered channel of waiter ids
    mu,             \* Store.mu: the connection holding it, or NoConn
    wrec,           \* the BlockingWaiter objects, in order of registration
    cleaner,        \* cleanupWaiters goroutine: 0, or the waiter to close
    pc,             \* per connection: position in the running command
    op,             \* per connection: the command and its arguments
    loc,            \* per connection: local variables of the running command
    ret,            \* the command that returned in the last step, if any
    nextVal,        \* next fresh value a push will carry
    storage,        \* Store.storage: key -> value, only for present keys
    expireStorage,  \* Store.expireStorage: key -> ValueWithTTL
    now,            \* time.Now(), in milliseconds since the store was made
    inbuf,          \* per connection: bytes received and not yet parsed
    parsed          \* per connection: the value parser.Parse() returned

\* the string maps and the clock
strVars == <<storage, expireStorage, now>>
\* the list map, the waiter registry and what goes with them
listVars == <<listStorage, waiters, waiterCleanup, mu, wrec, cleaner, nextVal>>
\* what a connection has received and parsed
netVars == <<inbuf, parsed>>

vars == <<listStorage, waiters, waiterCleanup, mu, wrec, cleaner,
          pc, op, loc, ret, nextVal, storage, expireStorage, now, inbuf,
          parsed>>

\* ------------------------------------------------------------ Go map ops
Get(m, k) == IF k \in DOMAIN m THEN m[k] ELSE <<>>
Put(m, k, v) == [x \in (DOMAIN m) \cup {k} |-> IF x = k THEN v ELSE m[x]]
Del(m, k) == [x \in (DOMAIN m) \ {k} |-> m[x]]
EmptyMap == [x \in {} |-> <<>>]

Reverse(s) == [j \in 1..Len(s) |-> s[Len(s) + 1 - j]]
Min(a, b) == IF a < b THEN a ELSE b

\* ------------------------------------------------------------ records
NoOp == [cmd |-> "none", key |-> "", vals |-> <<>>, keys |-> <<>>,
         useTimeout |-> FALSE, hasCount |-> FALSE, count |-> 0,
         start |-> 0, stop |-> 0, value |-> "", hasPx |-> FALSE, px |-> 0,
         args |-> <<>>]
\* no ValueWithTTL
NoObj == [Value |-> "", ExpireAt |-> 0]
NoLoc == [ctx |-> "none", i |-> 0, lst |-> <<>>, w |-> 0, newlen |-> 0,
          obj |-> NoObj]
NoRes == [kind |-> "none", key |-> "", vals |-> <<>>]
\* conn: the connection whose command returned; op: the command; res: what
\* it returned; w: the waiter of a blocked BLPOP, or the waiter a push took
\* from the queue; sent: what a push sent to that waiter; obj: the expiring
\* entry a GET found or a SET without PX discarded; at: the instant a SET
\* or a GET took from time.Now()
NoRet == [conn |-> NoConn, op |-> NoOp, res |-> NoRes, w |-> 0, sent |-> <<>>,
          obj |-> NoObj, at |-> 0]

IntRes(n) == [kind |-> "int", key |-> "", vals |-> <<n>>]
NilRes == [kind |-> "nil", key |-> "", vals |-> <<>>]
BulkRes(v) == [kind |-> "bulk", key |-> "", vals |-> <<v>>]
ArrayRes(vs) == [kind |-> "array", key |-> "", vals |-> vs]
\* *BLPopResult{Key, Value}
BLPopResult(k, v) == [kind |-> "pair", key |-> k, vals |-> <<v>>]
\* BLPOPBlocking returning nil
TimeoutRes == [kind |-> "timeout", key |-> "", vals |-> <<>>]
\* SetHandler returning "OK"
OkRes == [kind |-> "simple", key |-> "", vals |-> <<"OK">>]
\* an error a handler or the registry returns; text: what its Error() yields
ErrRes(text) == [kind |-> "error", key |-> "", vals |-> <<text>>]

\* the interface{} value a handler returns: nil, a string, an int, a
\* []string, or the *NullArray main.go knows of
GoValue(t, s, n, ss) == [t |-> t, s |-> s, n |-> n, ss |-> ss]
GoNil == GoValue("nil", <<>>, 0, <<>>)
GoString(s) == GoValue("string", s, 0, <<>>)
GoInt(n) == GoValue("int", <<>>, n, <<>>)
GoStrings(ss) == GoValue("[]string", <<>>, 0, ss)
GoNullArray == GoValue("*NullArray", <<>>, 0, <<>>)
\* what the parser returns for an array, for the array of count -1
GoArray(vs) == GoValue("[]interface{}", <<>>, 0, vs)
GoNilArray == GoValue("[]interface{}(nil)", <<>>, 0, <<>>)

\* --------------------------------------------------- waiter registry helpers
\* removal of the first occurrence of w: the inner loops of store.go that
\* search the queue, cut the element out with append(q[:i], q[i+1:]...) and
\* break
RECURSIVE RemoveFirst(_, _)
RemoveFirst(q, w) ==
    IF q = <<>> THEN <<>>
    ELSE IF Head(q) = w THEN Tail(q)
    ELSE <<Head(q)>> \o RemoveFirst(Tail(q), w)

\* the waiter is left in the queue
RemoveAtKeeps(ws, k, w) == ws

\* the map entry is kept when the queue is left empty
RemoveAtLeavesEmpty(ws, k, w) == Put(ws, k, RemoveFirst(Get(ws, k), w))

\* one pass of "remove the waiter from the queue of key k, drop the map
\* entry when the queue is left empty"
RemoveAt(ws, k, w) ==
    LET q == RemoveFirst(Get(ws, k), w)
    IN  IF Len(q) = 0 THEN Del(ws, k) ELSE Put(ws, k, q)

\* the waiter is removed from the queue of its first key alone
RemoveWaiterFirstKey(ws, keys, w) ==
    IF keys = <<>> THEN ws ELSE RemoveAt(ws, Head(keys), w)

\* notifyWaiters, first loop (and cleanupWaiters): for every key of the
\* waiter, in order
RECURSIVE RemoveWaiter(_, _, _)
RemoveWaiter(ws, keys, w) ==
    IF keys = <<>> THEN ws
    ELSE RemoveWaiter(RemoveAt(ws, Head(keys), w), Tail(keys), w)

\* notifyWaiters, second loop: every key of the waiter except the pushed one
RECURSIVE RemoveWaiterOther(_, _, _, _)
RemoveWaiterOther(ws, keys, w, key) ==
    IF keys = <<>> THEN ws
    ELSE IF Head(keys) = key THEN RemoveWaiterOther(ws, Tail(keys), w, key)
    ELSE RemoveWaiterOther(RemoveAt(ws, Head(keys), w), Tail(keys), w, key)

\* BLPOPBlocking: s.waiters[key] = append(s.waiters[key], waiter) per key
RECURSIVE AppendWaiter(_, _, _)
AppendWaiter(ws, keys, w) ==
    IF keys = <<>> THEN ws
    ELSE AppendWaiter(Put(ws, Head(keys), Append(Get(ws, Head(keys)), w)),
                      Tail(keys), w)

\* the waiter registered last is taken
PickWaiterLast(q) == q[Len(q)]

\* notifyWaiters: waiter := waiters[0]
PickWaiter(q) == q[1]

\* BLPOPBlocking: useTimeout is set when timeoutSeconds > 0
UseTimeout(t) == t > 0

\* The timeout goroutine of a waiter is "sleeping" in time.Sleep(timeout)
\* until the timeout has elapsed since the call, then "fired"; a waiter
\* without timeout has none.
\* time.Sleep(timeout) is over
SleepOver(timer) == timer = "fired"
\* the safety timer fires at any time
AfterOverAnyTime(timer) == TRUE

\* time.After(timeout + 100ms), created after the timeout goroutine was
\* started, fires later than time.Sleep(timeout) returns
AfterOver(timer) == SleepOver(timer)

\* a new BlockingWaiter with its Response channel (capacity 1)
NewWaiter(c, keys, t) ==
    [Keys |-> keys, Timeout |-> t, Response |-> <<>>, closed |-> FALSE,
     owner |-> c, timer |-> IF UseTimeout(t) THEN "sleeping" ELSE "none",
     delivered |-> 0]

\* the non-blocking send of notifyWaiters: select { case ch <- r: default: }
Send(wr, r) ==
    IF Len(wr.Response) < ResponseCap
    THEN [wr EXCEPT !.Response = Append(@, r), !.delivered = @ + 1]
    ELSE wr

Range(q) == {q[j] : j \in 1..Len(q)}

\* A BlockingWaiter that no call and no queue refers to any more cannot be
\* observed again: its timeout goroutine and the cleanup goroutine still
\* hold it, but removing it from queues it is not in and closing a channel
\* nobody reads changes nothing.  Such a waiter is dropped together with
\* its pending timeout and cleanup steps, and the last waiters, once
\* dropped, are forgotten.
Referenced(w, lc, ws) ==
    \/ \E c \in Conns : lc[c].w = w
    \/ \E k \in DOMAIN ws : w \in Range(ws[k])

Garbage ==
    [Keys |-> <<>>, Timeout |-> 0, Response |-> <<>>, closed |-> FALSE,
     owner |-> NoConn, timer |-> "none", delivered |-> 0]

RECURSIVE Forget(_)
Forget(wr) ==
    IF wr # <<>> /\ wr[Len(wr)] = Garbage
    THEN Forget(SubSeq(wr, 1, Len(wr) - 1))
    ELSE wr

Collect(wr, lc, ws) ==
    Forget([w \in 1..Len(wr) |->
               IF Referenced(w, lc, ws) THEN wr[w] ELSE Garbage])

\* the values still held somewhere: in a list, in a command under way, in a
\* response channel
UsedVals(ls, o, lc, wr) ==
    UNION ({Range(ls[k]) : k \in DOMAIN ls}
           \cup {Range(o[c].vals) : c \in Conns}
           \cup {Range(lc[c].lst) : c \in Conns}
           \cup {UNION {Range(wr[w].Response[j].vals) :
                           j \in 1..Len(wr[w].Response)} :
                     w \in 1..Len(wr)})

\* values only name the pushed elements: when none is left anywhere the
\* names are used again
NextFresh(nv, ls, o, lc, wr) ==
    IF UsedVals(ls, o, lc, wr) = {} THEN 1 ELSE nv

CollectQueue(wc, lc, ws) ==
    SelectSeq(wc, LAMBDA w : Referenced(w, lc, ws))

CollectCleaner(cl, lc, ws) ==
    IF cl # 0 /\ ~Referenced(cl, lc, ws) THEN 0 ELSE cl

\* ------------------------------------------------------------------ Init
\* NewStore(): empty maps, cleanup goroutine started, no command running
StoreInit ==
    /\ listStorage = EmptyMap
    /\ waiters = EmptyMap
    /\ waiterCleanup = <<>>
    /\ mu = NoConn
    /\ wrec = <<>>
    /\ cleaner = 0
    /\ pc = [c \in Conns |-> "idle"]
    /\ op = [c \in Conns |-> NoOp]
    /\ loc = [c \in Conns |-> NoLoc]
    /\ ret = NoRet
    /\ nextVal = 1
    /\ storage = EmptyMap
    /\ expireStorage = EmptyMap
    /\ now = 0

\* no connection has received anything
Init ==
    /\ StoreInit
    /\ inbuf = [c \in Conns |-> <<>>]
    /\ parsed = [c \in Conns |-> GoNil]

\* ---------------------------------------------- the connection's loop
\* the command o of connection c returns r to handleConnection, which
\* writes the reply and goes back to read the next request; what the
\* connection no longer refers to is dropped.  ws, wr: s.waiters and the
\* waiters as the command leaves them; ls: s.listStorage as it leaves it.
Return(c, o, r, w, sent, ws, wr, ls) ==
    /\ ret' = [NoRet EXCEPT !.conn = c, !.op = o, !.res = r, !.w = w,
                            !.sent = sent]
    /\ pc' = [pc EXCEPT ![c] = "idle"]
    /\ op' = [op EXCEPT ![c] = NoOp]
    /\ loc' = [loc EXCEPT ![c] = NoLoc]
    /\ waiters' = ws
    /\ wrec' = Collect(wr, loc', ws)
    /\ waiterCleanup' = CollectQueue(waiterCleanup, loc', ws)
    /\ cleaner' = CollectCleaner(cleaner, loc', ws)
    /\ listStorage' = ls
    /\ nextVal' = NextFresh(nextVal, ls, op', loc', wrec')


\* ------------------------------------------------------- RPUSH and LPUSH
PushOp(cmd, k, n) ==
    [NoOp EXCEPT !.cmd = cmd, !.key = k,
                 !.vals = [j \in 1..n |-> nextVal + j - 1]]

\* a connection receives RPUSH/LPUSH key v1..vn (RPushHandler/LPushHandler)
\* and the store reads the list: list, exists := s.listStorage[key]
StartPush(c, cmd, k, n) ==
    /\ pc[c] = "idle"
    /\ UNCHANGED strVars
    /\ op' = [op EXCEPT ![c] = PushOp(cmd, k, n)]
    /\ nextVal' = nextVal + n
    /\ loc' = [loc EXCEPT ![c].lst = Get(listStorage, k)]
    /\ pc' = [pc EXCEPT ![c] = "push_w"]
    /\ ret' = NoRet
    /\ UNCHANGED <<listStorage, waiters, waiterCleanup, mu, wrec, cleaner>>

\* LPUSH puts the values in front in the order given
PushedListNoReverse(cmd, lst, vals) ==
    IF cmd = "RPUSH" THEN lst \o vals ELSE vals \o lst

\* RPUSH puts the values in front of the existing elements
PushedListInFront(cmd, lst, vals) ==
    IF cmd = "RPUSH" THEN vals \o lst ELSE Reverse(vals) \o lst

\* RPUSH: append(list, values...); LPUSH: the values in reverse order, then
\* the existing elements
PushedList(cmd, lst, vals) ==
    IF cmd = "RPUSH" THEN lst \o vals ELSE Reverse(vals) \o lst

\* s.listStorage[key] = list
PushWrite(c) ==
    /\ pc[c] = "push_w"
    /\ UNCHANGED <<strVars, netVars>>
    /\ LET nl == PushedList(op[c].cmd, loc[c].lst, op[c].vals)
       IN  /\ listStorage' = Put(listStorage, op[c].key, nl)
           /\ loc' = [loc EXCEPT ![c].lst = <<>>, ![c].newlen = Len(nl)]
    /\ pc' = [pc EXCEPT ![c] = "notify"]
    /\ ret' = NoRet
    /\ UNCHANGED <<waiters, waiterCleanup, mu, wrec, cleaner, op, nextVal>>

\* the length is read from the map when the push returns
PushLengthAfterWake(newlen, ls, k) ==
    IF k \in DOMAIN ls THEN Len(ls[k]) ELSE 0

\* RPUSH/LPUSH: return len(list), the length of the slice the push wrote
\* before notifyWaiters; ls is s.listStorage when the push returns
PushLength(newlen, ls, k) == newlen

\* notifyWaiters(key) up to the call of BLPOP: take s.mu; with no waiter on
\* the key return at once, else take the head and remove it from the queues
\* of all its keys
NotifyStart(c) ==
    /\ pc[c] = "notify"
    /\ UNCHANGED <<strVars, netVars>>
    /\ mu = NoConn
    /\ LET q == Get(waiters, op[c].key)
       IN  IF Len(q) = 0
           THEN /\ Return(c, op[c],
                          IntRes(PushLength(loc[c].newlen, listStorage,
                                            op[c].key)), 0, <<>>,
                          waiters, wrec, listStorage)
                /\ UNCHANGED mu
           ELSE LET w == PickWaiter(q)
                IN  /\ waiters' = RemoveWaiter(waiters, wrec[w].Keys, w)
                    /\ mu' = c
                    /\ loc' = [loc EXCEPT ![c].ctx = "NOTIFY", ![c].i = 1,
                                          ![c].w = w]
                    /\ pc' = [pc EXCEPT ![c] = "lpop_r"]
                    /\ ret' = NoRet
                    /\ UNCHANGED <<waiterCleanup, wrec, cleaner, op,
                                   listStorage, nextVal>>

\* ------------------------------------------------------- LRANGE and LLEN
\* negative indices are taken as 0
LRANGENoNegative(ls, key, start, stop) ==
    LET list == Get(ls, key)
        a == IF start < 0 THEN 0 ELSE start
        b == Min(stop, Len(list) - 1)
    IN  IF a > b THEN <<>> ELSE SubSeq(list, a + 1, b + 1)

\* Store.LRANGE on the list map ls, statement by statement
LRANGE(ls, key, start, stop) ==
    IF key \notin DOMAIN ls THEN <<>>
    ELSE LET list == ls[key]
             length == Len(list)
         IN  IF length = 0 THEN <<>>
             ELSE LET start1 == IF start < 0 THEN length + start ELSE start
                      stop1 == IF stop < 0 THEN length + stop ELSE stop
                      start2 == IF start1 < 0 THEN 0 ELSE start1
                  IN  IF start2 >= length THEN <<>>
                      ELSE LET stop2 == IF stop1 >= length THEN length - 1
                                        ELSE stop1
                           IN  IF stop2 < start2 THEN <<>>
                               ELSE SubSeq(list, start2 + 1, stop2 + 1)

\* the last element is not counted
LLENLastIndex(ls, key) == IF key \notin DOMAIN ls THEN 0 ELSE Len(ls[key]) - 1

\* Store.LLEN on the list map ls
LLEN(ls, key) == IF key \notin DOMAIN ls THEN 0 ELSE Len(ls[key])

LRangeOp(k, start, stop) ==
    [NoOp EXCEPT !.cmd = "LRANGE", !.key = k, !.start = start, !.stop = stop]

\* a connection receives LRANGE key start stop: LRangeHandler returns the
\* elements Store.LRANGE yields
LRangeHandler(c, k, start, stop) ==
    /\ pc[c] = "idle"
    /\ Return(c, LRangeOp(k, start, stop),
              ArrayRes(LRANGE(listStorage, k, start, stop)), 0, <<>>,
              waiters, wrec, listStorage)
    /\ UNCHANGED <<mu, strVars>>

\* a connection receives LLEN key: LLenHandler returns Store.LLEN
LLenHandler(c, k) ==
    /\ pc[c] = "idle"
    /\ Return(c, [NoOp EXCEPT !.cmd = "LLEN", !.key = k],
              IntRes(LLEN(listStorage, k)), 0, <<>>, waiters, wrec,
              listStorage)
    /\ UNCHANGED <<mu, strVars, netVars>>

\* ------------------------------------------------------------------ LPOP
\* Store.LPOP is called by the LPOP command, by the scan of Store.BLPOP on
\* the fast path of BLPOPBlocking, and by the scan of Store.BLPOP inside
\* notifyWaiters; l.ctx tells which.  o and l are the command and the local
\* variables of the call.
\* the scan of notifyWaiters looks at the pushed key alone
CurKeysPushedOnly(o, l) ==
    IF l.ctx = "BLPOP" THEN o.keys ELSE <<o.key>>

\* the keys the call works through
CurKeys(o, l) ==
    IF l.ctx = "LPOP" THEN <<o.key>>
    ELSE IF l.ctx = "BLPOP" THEN o.keys
    ELSE wrec[l.w].Keys

CurKey(o, l) == CurKeys(o, l)[l.i]

\* the count of the running LPOP call: the scans of BLPOP pass nil
HasCount(o, l) == l.ctx = "LPOP" /\ o.hasCount

\* one element leaves the list whatever the count
RemoveCountOne(hasCount, count, lst) == 1

\* LPOP: how many elements leave the list lst
RemoveCount(hasCount, count, lst) ==
    IF hasCount THEN Min(count, Len(lst)) ELSE 1

\* the key is deleted whatever is left of the list
StoreAfterPopDeletes(ls, k, lst, n) == Del(ls, k)

\* the key is kept whatever is left of the list
StoreAfterPopKeeps(ls, k, lst, n) == Put(ls, k, SubSeq(lst, n + 1, Len(lst)))

\* LPOP: delete(s.listStorage, key) when every element of lst is removed,
\* else s.listStorage[key] = the remaining elements of lst
StoreAfterPop(ls, k, lst, n) ==
    IF n >= Len(lst) THEN Del(ls, k)
    ELSE Put(ls, k, SubSeq(lst, n + 1, Len(lst)))

\* what the LPOP command returns to the client (LPopHandler)
LpopResult(hasCount, hit, out) ==
    IF hasCount THEN ArrayRes(out)
    ELSE IF hit THEN BulkRes(out[1]) ELSE NilRes

\* notifyWaiters: defer s.mu.Unlock(), run when the wake-up of connection c
\* returns
DeferredUnlockForgotten(c) == c
DeferredUnlock(c) == NoConn

\* what the caller of LPOP does with its result.  hit: LPOP returned a
\* non-nil *string (out[1]); for the LPOP command with a count, out is the
\* returned array.
\*   LPOP command: the result goes back to the client.
\*   Store.BLPOP on the fast path: the first hit is returned; after the last
\*     key BLPOPBlocking goes on to register a waiter.
\*   Store.BLPOP in notifyWaiters: the first hit is sent to the waiter, the
\*     waiter is removed from its other keys, s.mu is released and the push
\*     returns the new length; without a hit s.mu is released and the push
\*     returns.
LpopReturn(c, o, l, hit, out, ls) ==
    LET k == CurKey(o, l)
        w == l.w
        more == l.i < Len(CurKeys(o, l))
        goOn(at, nl) ==
            /\ pc' = [pc EXCEPT ![c] = at]
            /\ op' = [op EXCEPT ![c] = o]
            /\ loc' = [loc EXCEPT ![c] = nl]
            /\ ret' = NoRet
            /\ listStorage' = ls
            /\ UNCHANGED <<waiters, mu, wrec, waiterCleanup, cleaner, nextVal>>
        next == [l EXCEPT !.i = @ + 1, !.lst = <<>>]
    IN
    IF l.ctx = "LPOP"
    THEN /\ Return(c, o, LpopResult(o.hasCount, hit, out), 0, <<>>,
                   waiters, wrec, ls)
         /\ UNCHANGED mu
    ELSE IF l.ctx = "BLPOP"
    THEN IF hit
         THEN /\ Return(c, o, BLPopResult(k, out[1]), 0, <<>>, waiters, wrec,
                        ls)
              /\ UNCHANGED mu
         ELSE IF more THEN goOn("lpop_r", next)
         ELSE goOn("register", NoLoc)
    ELSE IF hit
    THEN /\ Return(c, o, IntRes(PushLength(l.newlen, ls, o.key)), w,
                   <<BLPopResult(k, out[1])>>,
                   RemoveWaiterOther(waiters, wrec[w].Keys, w, o.key),
                   [wrec EXCEPT ![w] = Send(@, BLPopResult(k, out[1]))], ls)
         /\ mu' = DeferredUnlock(c)
    ELSE IF more THEN goOn("lpop_r", next)
    ELSE /\ Return(c, o, IntRes(PushLength(l.newlen, ls, o.key)), w, <<>>,
                   waiters, wrec, ls)
         /\ mu' = DeferredUnlock(c)

\* LPOP: list, exists := s.listStorage[key], and the returns that follow
\* without touching the map: missing key, empty list, count <= 0
LpopReadAs(c, o, l) ==
    LET k == CurKey(o, l)
        lst == Get(listStorage, k)
    IN  IF k \notin DOMAIN listStorage \/ Len(lst) = 0
        THEN LpopReturn(c, o, l, FALSE, <<>>, listStorage)
        ELSE IF HasCount(o, l) /\ o.count <= 0
        THEN LpopReturn(c, o, l, FALSE, <<>>, listStorage)
        ELSE /\ loc' = [loc EXCEPT ![c] = [l EXCEPT !.lst = lst]]
             /\ op' = [op EXCEPT ![c] = o]
             /\ pc' = [pc EXCEPT ![c] = "lpop_w"]
             /\ ret' = NoRet
             /\ UNCHANGED <<waiters, mu, wrec, waiterCleanup, cleaner,
                            listStorage, nextVal>>

\* the read of a scan that is under way (a later key of Store.BLPOP, or the
\* scan of notifyWaiters)
LpopRead(c) ==
    /\ pc[c] = "lpop_r"
    /\ UNCHANGED <<strVars, netVars>>
    /\ LpopReadAs(c, op[c], loc[c])

\* LPOP: the write of s.listStorage computed from the list read before
LpopWrite(c) ==
    /\ pc[c] = "lpop_w"
    /\ UNCHANGED <<strVars, netVars>>
    /\ LET k == CurKey(op[c], loc[c])
           lst == loc[c].lst
           n == RemoveCount(HasCount(op[c], loc[c]), op[c].count, lst)
       IN  LpopReturn(c, op[c], loc[c], TRUE, SubSeq(lst, 1, n),
                      StoreAfterPop(listStorage, k, lst, n))

LpopOp(k, hasCount, count) ==
    [NoOp EXCEPT !.cmd = "LPOP", !.key = k, !.hasCount = hasCount,
                 !.count = count]

\* a connection receives LPOP key [count] (LPopHandler) and Store.LPOP reads
\* the list
StartLPOP(c, k, hasCount, count) ==
    /\ pc[c] = "idle"
    /\ UNCHANGED <<strVars, netVars>>
    /\ LpopReadAs(c, LpopOp(k, hasCount, count),
                  [NoLoc EXCEPT !.ctx = "LPOP", !.i = 1])

\* ----------------------------------------------------------------- BLPOP
\* BLPOP calls that have begun and have not registered a waiter yet
Scanning ==
    {c \in Conns : op[c].cmd = "BLPOP"
                   /\ pc[c] \in {"lpop_r", "lpop_w", "register"}}

BlpopOp(keys, t) ==
    [NoOp EXCEPT !.cmd = "BLPOP", !.keys = keys, !.count = t,
                 !.useTimeout = UseTimeout(t)]

\* a connection receives BLPOP key... timeout (BLPopHandler, timeout >= 0)
\* and BLPOPBlocking begins the scan of Store.BLPOP with the read of the
\* first key
StartBLPOP(c, keys, t) ==
    /\ pc[c] = "idle"
    /\ UNCHANGED strVars
    /\ LpopReadAs(c, BlpopOp(keys, t), [NoLoc EXCEPT !.ctx = "BLPOP", !.i = 1])

\* s.mu.Unlock() by the connection c that holds it, before c waits: the
\* lock is free again
UnlockForgotten(c) == c
Unlock(c) == NoConn

\* BLPOPBlocking after the failed scan: create the waiter, register it under
\* s.mu on every key, start the timeout goroutine when timeoutSeconds > 0
Register(c) ==
    /\ pc[c] = "register"
    /\ UNCHANGED <<strVars, netVars>>
    /\ mu = NoConn
    /\ LET w == Len(wrec) + 1
       IN  /\ wrec' = Append(wrec, NewWaiter(c, op[c].keys, op[c].count))
           /\ waiters' = AppendWaiter(waiters, op[c].keys, w)
           /\ loc' = [loc EXCEPT ![c].w = w]
    /\ mu' = Unlock(c)
    /\ pc' = [pc EXCEPT ![c] = "wait"]
    /\ ret' = NoRet
    /\ UNCHANGED <<listStorage, waiterCleanup, cleaner, op, nextVal>>

\* BLPOPBlocking: the receive from waiter.Response, in the select of the
\* timed wait or alone in the endless wait.  A buffered result is returned;
\* a closed and empty channel yields nil.
RecvResponse(c) ==
    /\ pc[c] = "wait"
    /\ UNCHANGED <<strVars, netVars>>
    /\ LET w == loc[c].w
       IN  \/ /\ Len(wrec[w].Response) > 0
              /\ Return(c, op[c], Head(wrec[w].Response), w, <<>>, waiters,
                        [wrec EXCEPT ![w].Response = Tail(@)], listStorage)
           \/ /\ Len(wrec[w].Response) = 0
              /\ wrec[w].closed
              /\ Return(c, op[c], TimeoutRes, w, <<>>, waiters, wrec,
                        listStorage)
    /\ UNCHANGED mu

\* BLPOPBlocking: case <-time.After(timeout + 100ms): return nil
AfterFire(c) ==
    /\ pc[c] = "wait"
    /\ UNCHANGED <<strVars, netVars>>
    /\ op[c].useTimeout
    /\ AfterOver(wrec[loc[c].w].timer)
    /\ Return(c, op[c], TimeoutRes, loc[c].w, <<>>, waiters, wrec,
              listStorage)
    /\ UNCHANGED mu

\* ------------------------------------------------- timer and cleanup
\* the timeout goroutine of BLPOPBlocking: time.Sleep(timeout) returns and
\* the waiter is sent, without blocking, on s.waiterCleanup
TimerFire(w) ==
    /\ w \in 1..Len(wrec)
    /\ UNCHANGED <<strVars, netVars>>
    /\ wrec[w].timer = "sleeping"
    /\ waiterCleanup' = IF Len(waiterCleanup) < CleanupCap
                        THEN Append(waiterCleanup, w) ELSE waiterCleanup
    /\ wrec' = [wrec EXCEPT ![w].timer = "fired"]
    /\ ret' = NoRet
    /\ UNCHANGED <<listStorage, waiters, mu, cleaner, pc, op, loc, nextVal>>

\* cleanupWaiters: receive a waiter and, under s.mu, remove it from the
\* queue of every key it was monitoring
CleanupRemove ==
    /\ cleaner = 0
    /\ UNCHANGED <<strVars, netVars>>
    /\ Len(waiterCleanup) > 0
    /\ mu = NoConn
    /\ LET w == Head(waiterCleanup)
       IN  /\ waiters' = RemoveWaiter(waiters, wrec[w].Keys, w)
           /\ cleaner' = CollectCleaner(w, loc, waiters')
    /\ waiterCleanup' = CollectQueue(Tail(waiterCleanup), loc, waiters')
    /\ wrec' = Collect(wrec, loc, waiters')
    /\ nextVal' = NextFresh(nextVal, listStorage, op, loc, wrec')
    /\ ret' = NoRet
    /\ UNCHANGED <<listStorage, mu, pc, op, loc>>

\* cleanupWaiters: close(waiter.Response) after s.mu is released
CleanupClose ==
    /\ cleaner # 0
    /\ UNCHANGED <<strVars, netVars>>
    /\ cleaner' = 0
    /\ wrec' = [wrec EXCEPT ![cleaner].closed = TRUE]
    /\ ret' = NoRet
    /\ UNCHANGED <<listStorage, waiters, waiterCleanup, mu, pc, op, loc,
                   nextVal>>

\* ----------------------------------------------------------- SET and GET
\* time is counted in milliseconds; time.Now() reads the variable now
\* SET: expireAt := time.Now().Add(px milliseconds)
ExpireAtOf(t, px) == t + px

\* no entry is ever taken as expired
ExpiredNever(obj, t) == FALSE

\* GET: obj.ExpireAt.Before(now)
Expired(obj, t) == obj.ExpireAt < t

\* the other map is left as it is
DeleteOtherSkipped(m, k) == m

\* SET: delete(map, key) on the map the entry is not written to
DeleteOther(m, k) == Del(m, k)

SetOp(k, v, hasPx, px) ==
    [NoOp EXCEPT !.cmd = "SET", !.key = k, !.value = v, !.hasPx = hasPx,
                 !.px = px]

\* the command o of connection c returns r; obj and at as in NoRet
StrReturn(c, o, r, obj, at) ==
    /\ ret' = [NoRet EXCEPT !.conn = c, !.op = o, !.res = r, !.obj = obj,
                            !.at = at]
    /\ pc' = [pc EXCEPT ![c] = "idle"]
    /\ op' = [op EXCEPT ![c] = NoOp]
    /\ loc' = [loc EXCEPT ![c] = NoLoc]

\* a connection receives SET key value [PX px] (SetHandler) and Store.SET
\* writes the entry: with px into s.expireStorage, stamped with
\* time.Now() + px, else into s.storage
StartSET(c, k, v, hasPx, px) ==
    /\ pc[c] = "idle"
    /\ op' = [op EXCEPT ![c] = SetOp(k, v, hasPx, px)]
    /\ loc' = [loc EXCEPT ![c].newlen = now]
    /\ IF hasPx
       THEN /\ expireStorage' =
                  Put(expireStorage, k,
                      [Value |-> v, ExpireAt |-> ExpireAtOf(now, px)])
            /\ UNCHANGED storage
       ELSE /\ storage' = Put(storage, k, v)
            /\ UNCHANGED expireStorage
    /\ pc' = [pc EXCEPT ![c] = "set_d"]
    /\ ret' = NoRet
    /\ UNCHANGED <<now, listVars>>

\* Store.SET: the key is deleted from the other map, and SetHandler
\* returns "OK"
SetDelete(c) ==
    /\ pc[c] = "set_d"
    /\ IF op[c].hasPx
       THEN /\ storage' = DeleteOther(storage, op[c].key)
            /\ UNCHANGED expireStorage
       ELSE /\ expireStorage' = DeleteOther(expireStorage, op[c].key)
            /\ UNCHANGED storage
    /\ StrReturn(c, op[c], OkRes,
                 IF ~op[c].hasPx /\ op[c].key \in DOMAIN expireStorage
                 THEN expireStorage[op[c].key] ELSE NoObj,
                 loc[c].newlen)
    /\ UNCHANGED <<now, listVars, netVars>>

\* a connection receives GET key (GetHandler) and Store.GET looks the key up
\* in s.expireStorage
StartGET(c, k) ==
    /\ pc[c] = "idle"
    /\ op' = [op EXCEPT ![c] = [NoOp EXCEPT !.cmd = "GET", !.key = k]]
    /\ IF k \in DOMAIN expireStorage
       THEN /\ loc' = [loc EXCEPT ![c].obj = expireStorage[k]]
            /\ pc' = [pc EXCEPT ![c] = "get_chk"]
       ELSE /\ loc' = loc
            /\ pc' = [pc EXCEPT ![c] = "get_plain"]
    /\ ret' = NoRet
    /\ UNCHANGED <<strVars, listVars>>

\* Store.GET with an expiring entry: now := time.Now(); an expired entry is
\* deleted and nil returned, else the value is returned
GetCheck(c) ==
    /\ pc[c] = "get_chk"
    /\ IF Expired(loc[c].obj, now)
       THEN /\ expireStorage' = Del(expireStorage, op[c].key)
            /\ StrReturn(c, op[c], NilRes, loc[c].obj, now)
       ELSE /\ UNCHANGED expireStorage
            /\ StrReturn(c, op[c], BulkRes(loc[c].obj.Value), loc[c].obj, now)
    /\ UNCHANGED <<storage, now, listVars, netVars>>

\* Store.GET without an expiring entry: the value of s.storage, or nil
GetPlain(c) ==
    /\ pc[c] = "get_plain"
    /\ IF op[c].key \in DOMAIN storage
       THEN StrReturn(c, op[c], BulkRes(storage[op[c].key]), NoObj, now)
       ELSE StrReturn(c, op[c], NilRes, NoObj, now)
    /\ UNCHANGED <<strVars, listVars, netVars>>

\* a millisecond passes
Tick ==
    /\ now < MaxTime
    /\ now' = now + 1
    /\ ret' = NoRet
    /\ UNCHANGED <<storage, expireStorage, pc, op, loc, listVars, netVars>>

\* ------------------------------------------------- Go strings and numbers
\* a Go string is the sequence of its bytes, one character each
Digits == <<"0", "1", "2", "3", "4", "5", "6", "7", "8", "9">>
DigitSet == {Digits[j] : j \in 1..10}
DigitVal(ch) == (CHOOSE j \in 1..10 : Digits[j] = ch) - 1

\* fmt's %d of a number that is not negative, of any number
RECURSIVE Utoa(_)
Utoa(n) == IF n < 10 THEN <<Digits[n + 1]>>
           ELSE Utoa(n \div 10) \o <<Digits[(n % 10) + 1]>>
Itoa(n) == IF n < 0 THEN <<"-">> \o Utoa(0 - n) ELSE Utoa(n)

\* strconv.Atoi and strconv.ParseInt(s, 10, 64): an optional sign, then
\* digits and nothing else.  The strings of the model stay far from the
\* range of int, so "out of range" never happens.
RECURSIVE DigitsVal(_)
DigitsVal(s) == IF Len(s) = 0 THEN 0
                ELSE 10 * DigitsVal(SubSeq(s, 1, Len(s) - 1))
                     + DigitVal(s[Len(s)])
Unsigned(s) == IF Len(s) > 0 /\ s[1] \in {"+", "-"} THEN Tail(s) ELSE s
Atoi(s) ==
    IF Len(Unsigned(s)) = 0 \/ \E j \in 1..Len(Unsigned(s)) :
                                   Unsigned(s)[j] \notin DigitSet
    THEN [ok |-> FALSE, n |-> 0]
    ELSE [ok |-> TRUE,
          n |-> IF s[1] = "-" THEN 0 - DigitsVal(Unsigned(s))
                ELSE DigitsVal(Unsigned(s))]

\* strings.ToUpper, on ASCII
LowerCase == <<"a", "b", "c", "d", "e", "f", "g", "h", "i", "j", "k", "l",
               "m", "n", "o", "p", "q", "r", "s", "t", "u", "v", "w", "x",
               "y", "z">>
UpperCase == <<"A", "B", "C", "D", "E", "F", "G", "H", "I", "J", "K", "L",
               "M", "N", "O", "P", "Q", "R", "S", "T", "U", "V", "W", "X",
               "Y", "Z">>
UpperByte(ch) == IF \E j \in 1..26 : LowerCase[j] = ch
                 THEN UpperCase[CHOOSE j \in 1..26 : LowerCase[j] = ch]
                 ELSE ch
ToUpperSame(s) == s
ToUpper(s) == [j \in 1..Len(s) |-> UpperByte(s[j])]

\* the strings the clients send as keys and as list values: the keys by
\* their names, the n-th value pushed as the decimal digits of n
KeyStr(k) == IF k = "k1" THEN <<"k", "1">> ELSE <<"k", "2">>
ValStr(n) == Itoa(n)

\* ------------------------------------------------------------ RESP writer
CRLF == <<"\r", "\n">>

RECURSIVE Concat(_)
Concat(ss) == IF Len(ss) = 0 THEN <<>> ELSE Head(ss) \o Concat(Tail(ss))

WriteSimpleString(s) == <<"+">> \o s \o CRLF
\* WriteBulkString of a string that is not nil, of nil
WriteBulkString(s) == <<"$">> \o Itoa(Len(s)) \o CRLF \o s \o CRLF
WriteBulkNil == <<"$", "-", "1">> \o CRLF
WriteInteger(n) == <<":">> \o Itoa(n) \o CRLF
WriteArray(arr) ==
    <<"*">> \o Itoa(Len(arr)) \o CRLF
        \o Concat([j \in 1..Len(arr) |-> WriteBulkString(arr[j])])
\* main.go calls it; the writer of the repository does not define it
WriteNullArray == <<"*", "-", "1">> \o CRLF

\* ------------------------------------------------- what a handler returns
OK ==
    <<"O", "K">>
PONG ==
    <<"P", "O", "N", "G">>
InternalServerError ==
    <<"-", "E", "R", "R", " ", "i", "n", "t", "e", "r", "n", "a", "l", " ",
      "s", "e", "r", "v", "e", "r", " ", "e", "r", "r", "o", "r">>

\* writeResponse: the bytes written for a handler's result
writeResponse(v) ==
    CASE v.t = "nil" -> WriteBulkNil
      [] v.t = "string" -> IF v.s = OK \/ v.s = PONG
                           THEN WriteSimpleString(v.s)
                           ELSE WriteBulkString(v.s)
      [] v.t = "int" -> WriteInteger(v.n)
      [] v.t = "[]string" -> WriteArray(v.ss)
      [] v.t = "*NullArray" -> WriteNullArray
      [] OTHER -> WriteSimpleString(InternalServerError)

\* BLPopHandler.Execute after store.BLPOPBlocking returned r
BLPopReturn(r) ==
    IF r.kind = "pair"
    THEN GoStrings(<<KeyStr(r.key), ValStr(r.vals[1])>>)
    ELSE GoNil

\* ---------------------------------------------------- the handlers' errors
\* the Error() text of WrongNumberOfArgumentsError{Command},
\* InvalidArgumentError{Message} and UnknownCommandError{Command}
WrongNumberOfArgumentsError(cmd) ==
    <<"-", "E", "R", "R", " ", "w", "r", "o", "n", "g", " ", "n", "u", "m",
      "b", "e", "r", " ", "o", "f", " ", "a", "r", "g", "u", "m", "e", "n",
      "t", "s", " ", "f", "o", "r", " ", "'">>
        \o cmd \o <<"'", " ", "c", "o", "m", "m", "a", "n", "d">>
InvalidArgumentError(msg) ==
    <<"-", "E", "R", "R", " ">> \o msg
UnknownCommandError(cmd) ==
    <<"-", "E", "R", "R", " ", "u", "n", "k", "n", "o", "w", "n", " ", "c",
      "o", "m", "m", "a", "n", "d", " ", "'">>
        \o cmd \o <<"'">>

blpop ==
    <<"b", "l", "p", "o", "p">>
TimeoutNotFloat ==
    <<"t", "i", "m", "e", "o", "u", "t", " ", "i", "s", " ", "n", "o", "t",
      " ", "a", " ", "f", "l", "o", "a", "t", " ", "o", "r", " ", "o", "u",
      "t", " ", "o", "f", " ", "r", "a", "n", "g", "e">>
TimeoutIsNegative ==
    <<"t", "i", "m", "e", "o", "u", "t", " ", "i", "s", " ", "n", "e", "g",
      "a", "t", "i", "v", "e">>

\* a handler of connection c returns r for the command o without a call of
\* the store, and handleConnection writes the reply
Reply(c, o, r) ==
    /\ ret' = [NoRet EXCEPT !.conn = c, !.op = o, !.res = r]
    /\ UNCHANGED <<pc, op, loc, listVars, strVars>>

\* a handler or the registry returns the error with the given text
ErrReturn(c, o, text) == Reply(c, o, ErrRes(text))

\* BLPopHandler.Execute: if timeout < 0
NegativeNever(n) == FALSE
Negative(n) == n < 0

\* BLPopHandler.Execute with the arguments keys \o <<timeoutStr>>: the
\* checks of the arguments, then store.BLPOPBlocking(keys, timeout)
BLPopExecute(c, keys, timeoutStr) ==
    /\ pc[c] = "idle"
    /\ LET o == [NoOp EXCEPT !.cmd = "BLPOP", !.keys = keys,
                             !.args = <<timeoutStr>>]
           timeout == Atoi(timeoutStr)
       IN  IF Len(keys) + 1 < 2
           THEN ErrReturn(c, o, WrongNumberOfArgumentsError(blpop))
           ELSE IF ~timeout.ok
           THEN ErrReturn(c, o, InvalidArgumentError(TimeoutNotFloat))
           ELSE IF Negative(timeout.n)
           THEN ErrReturn(c, o, InvalidArgumentError(TimeoutIsNegative))
           ELSE StartBLPOP(c, keys, timeout.n)

\* ------------------------------------------------------------ RESP parser
\* what a function of the parser yields: the value and the bytes left
\* unread; or an error value; or a run-time panic, which ends the process
Parsed(v, rest) == [status |-> "ok", val |-> v, rest |-> rest]
Failed(status) == [status |-> status, val |-> GoNil, rest |-> <<>>]

\* reader.ReadString('\n'): where the first LF is, 0 when there is none
IndexLF(b) ==
    IF \E i \in 1..Len(b) : b[i] = "\n"
    THEN CHOOSE i \in 1..Len(b) :
             b[i] = "\n" /\ \A j \in 1..(i - 1) : b[j] # "\n"
    ELSE 0

\* the line without its LF, and without the CR before it if there is one
StrippedOfLF(line) == SubSeq(line, 1, Len(line) - 1)
Stripped(line) ==
    IF Len(line) >= 2 /\ line[Len(line) - 1] = "\r"
    THEN SubSeq(line, 1, Len(line) - 2)
    ELSE SubSeq(line, 1, Len(line) - 1)

readLine(b) ==
    IF IndexLF(b) = 0 THEN Failed("error")
    ELSE Parsed(GoString(Stripped(SubSeq(b, 1, IndexLF(b)))),
                SubSeq(b, IndexLF(b) + 1, Len(b)))

readSimpleString(b) == readLine(b)

\* make([]byte, length+2) panics when length+2 is negative, io.ReadFull
\* fails when fewer bytes come, buf[:length] panics when length is negative
readBulkString(b) ==
    LET line == readLine(b)
        length == Atoi(line.val.s)
    IN  IF line.status # "ok" THEN line
        ELSE IF ~length.ok THEN Failed("error")
        ELSE IF length.n = -1 THEN Parsed(GoNil, line.rest)
        ELSE IF length.n + 2 < 0 THEN Failed("panic")
        ELSE IF Len(line.rest) < length.n + 2 THEN Failed("error")
        ELSE IF length.n < 0 THEN Failed("panic")
        ELSE Parsed(GoString(SubSeq(line.rest, 1, length.n)),
                    SubSeq(line.rest, length.n + 3, Len(line.rest)))

readInteger(b) ==
    LET line == readLine(b)
    IN  IF line.status # "ok" THEN line
        ELSE IF ~Atoi(line.val.s).ok THEN Failed("error")
        ELSE Parsed(GoInt(Atoi(line.val.s).n), line.rest)

RECURSIVE Parse(_)
\* the loop of readArray: count values to read yet, result the values read
RECURSIVE readElements(_, _, _)
readElements(b, count, result) ==
    IF count = 0 THEN Parsed(GoArray(result), b)
    ELSE IF Parse(b).status # "ok" THEN Failed(Parse(b).status)
    ELSE readElements(Parse(b).rest, count - 1, Append(result, Parse(b).val))

\* make([]interface{}, count) panics when count is negative
readArray(b) ==
    LET line == readLine(b)
        count == Atoi(line.val.s)
    IN  IF line.status # "ok" THEN line
        ELSE IF ~count.ok THEN Failed("error")
        ELSE IF count.n = -1 THEN Parsed(GoNilArray, line.rest)
        ELSE IF count.n < 0 THEN Failed("panic")
        ELSE readElements(line.rest, count.n, <<>>)

\* Parser.Parse on the bytes b: ReadByte fails at the end of the stream
Parse(b) ==
    IF Len(b) = 0 THEN Failed("error")
    ELSE CASE b[1] = "+" -> readSimpleString(Tail(b))
           [] b[1] = "$" -> readBulkString(Tail(b))
           [] b[1] = "*" -> readArray(Tail(b))
           [] b[1] = ":" -> readInteger(Tail(b))
           [] OTHER -> Failed("error")

\* ------------------------------------------------------- the handlers
\* the command a handler runs and the arguments it was given
CmdOp(cmd, args) == [NoOp EXCEPT !.cmd = cmd, !.args = args]
\* PingHandler and EchoHandler returning a string
StrRes(s) == [kind |-> "string", key |-> "", vals |-> <<s>>]

PX ==
    <<"P", "X">>
NotAnInteger ==
    <<"v", "a", "l", "u", "e", " ", "i", "s", " ", "n", "o", "t", " ", "a",
      "n", " ", "i", "n", "t", "e", "g", "e", "r", " ", "o", "r", " ", "o",
      "u", "t", " ", "o", "f", " ", "r", "a", "n", "g", "e">>
SyntaxError ==
    <<"s", "y", "n", "t", "a", "x", " ", "e", "r", "r", "o", "r">>

PingExecute(c, args) ==
    Reply(c, CmdOp("PING", args),
          StrRes(IF Len(args) = 0 THEN PONG ELSE args[1]))

EchoExecute(c, args) ==
    IF Len(args) = 0
    THEN ErrReturn(c, CmdOp("ECHO", args),
                   WrongNumberOfArgumentsError(<<"e", "c", "h", "o">>))
    ELSE Reply(c, CmdOp("ECHO", args), StrRes(args[1]))

\* the value is stored before the milliseconds of PX are parsed
SetExecuteStoresFirst(c, args) ==
    IF Len(args) < 2
    THEN ErrReturn(c, CmdOp("SET", args),
                   WrongNumberOfArgumentsError(<<"s", "e", "t">>))
    ELSE IF Len(args) >= 4
    THEN IF ToUpper(args[3]) = PX
         THEN IF ~Atoi(args[4]).ok
              THEN /\ storage' = Put(storage, args[1], args[2])
                   /\ ret' = [NoRet EXCEPT
                                 !.conn = c, !.op = CmdOp("SET", args),
                                 !.res = ErrRes(InvalidArgumentError(
                                                    NotAnInteger))]
                   /\ UNCHANGED <<pc, op, loc, listVars, expireStorage, now>>
              ELSE StartSET(c, args[1], args[2], TRUE, Atoi(args[4]).n)
         ELSE ErrReturn(c, CmdOp("SET", args),
                        InvalidArgumentError(SyntaxError))
    ELSE IF Len(args) = 3
    THEN ErrReturn(c, CmdOp("SET", args), InvalidArgumentError(SyntaxError))
    ELSE StartSET(c, args[1], args[2], FALSE, 0)

\* SetHandler.Execute: key, value and the option PX with its milliseconds
SetExecute(c, args) ==
    IF Len(args) < 2
    THEN ErrReturn(c, CmdOp("SET", args),
                   WrongNumberOfArgumentsError(<<"s", "e", "t">>))
    ELSE IF Len(args) >= 4
    THEN IF ToUpper(args[3]) = PX
         THEN IF ~Atoi(args[4]).ok
              THEN ErrReturn(c, CmdOp("SET", args),
                             InvalidArgumentError(NotAnInteger))
              ELSE StartSET(c, args[1], args[2], TRUE, Atoi(args[4]).n)
         ELSE ErrReturn(c, CmdOp("SET", args),
                        InvalidArgumentError(SyntaxError))
    ELSE IF Len(args) = 3
    THEN ErrReturn(c, CmdOp("SET", args), InvalidArgumentError(SyntaxError))
    ELSE StartSET(c, args[1], args[2], FALSE, 0)

GetExecute(c, args) ==
    IF Len(args) # 1
    THEN ErrReturn(c, CmdOp("GET", args),
                   WrongNumberOfArgumentsError(<<"g", "e", "t">>))
    ELSE StartGET(c, args[1])

\* the list key a client names
KeyOf(s) == CHOOSE k \in Keys : KeyStr(k) = s

\* RPushHandler.Execute and LPushHandler.Execute.  The values of the lists
\* are numbered in the store's model: the clients push, as the n-th value,
\* the digits of n.
PushExecute(c, cmd, args) ==
    IF Len(args) < 2
    THEN ErrReturn(c, CmdOp(cmd, args),
                   WrongNumberOfArgumentsError(
                       IF cmd = "RPUSH" THEN <<"r", "p", "u", "s", "h">>
                       ELSE <<"l", "p", "u", "s", "h">>))
    ELSE /\ \E k \in Keys : KeyStr(k) = args[1]
         /\ \A j \in 2..Len(args) : args[j] = ValStr(nextVal + j - 2)
         /\ StartPush(c, cmd, KeyOf(args[1]), Len(args) - 1)

LRangeExecute(c, args) ==
    IF Len(args) # 3
    THEN ErrReturn(c, CmdOp("LRANGE", args),
                   WrongNumberOfArgumentsError(
                       <<"l", "r", "a", "n", "g", "e">>))
    ELSE IF ~Atoi(args[2]).ok \/ ~Atoi(args[3]).ok
    THEN ErrReturn(c, CmdOp("LRANGE", args),
                   InvalidArgumentError(NotAnInteger))
    ELSE /\ \E k \in Keys : KeyStr(k) = args[1]
         /\ LRangeHandler(c, KeyOf(args[1]), Atoi(args[2]).n, Atoi(args[3]).n)

\* ------------------------------------------------------- the registry
\* NewCommandRegistry: the names registered
Names ==
    [PING |-> <<"P", "I", "N", "G">>,
     ECHO |-> <<"E", "C", "H", "O">>,
     SET |-> <<"S", "E", "T">>,
     GET |-> <<"G", "E", "T">>,
     RPUSH |-> <<"R", "P", "U", "S", "H">>,
     LPUSH |-> <<"L", "P", "U", "S", "H">>,
     LRANGE |-> <<"L", "R", "A", "N", "G", "E">>]
Registered == {Names[n] : n \in DOMAIN Names}

\* CommandRegistry.Execute(cmd, args) called by connection c
Execute(c, cmd, args) ==
    LET cmdUpper == ToUpper(cmd)
    IN  IF cmdUpper \notin Registered
        THEN ErrReturn(c, CmdOp("unknown", args), UnknownCommandError(cmd))
        ELSE CASE cmdUpper = Names.PING -> PingExecute(c, args)
               [] cmdUpper = Names.ECHO -> EchoExecute(c, args)
               [] cmdUpper = Names.SET -> SetExecute(c, args)
               [] cmdUpper = Names.GET -> GetExecute(c, args)
               [] cmdUpper = Names.RPUSH -> PushExecute(c, "RPUSH", args)
               [] cmdUpper = Names.LPUSH -> PushExecute(c, "LPUSH", args)
               [] cmdUpper = Names.LRANGE -> LRangeExecute(c, args)

\* ------------------------------------------------------- handleConnection
InvalidCommandFormat ==
    <<"-", "E", "R", "R", " ", "i", "n", "v", "a", "l", "i", "d", " ", "c",
      "o", "m", "m", "a", "n", "d", " ", "f", "o", "r", "m", "a", "t">>
InvalidRequestFormat ==
    <<"-", "E", "R", "R", " ", "i", "n", "v", "a", "l", "i", "d", " ", "r",
      "e", "q", "u", "e", "s", "t", " ", "f", "o", "r", "m", "a", "t">>

\* the elements of the request after the first, those that are strings
Strings(vs) == [j \in 1..Len(SelectSeq(vs, LAMBDA v : v.t = "string")) |->
                   SelectSeq(vs, LAMBDA v : v.t = "string")[j].s]

\* the body of the loop for the value parser.Parse() returned
Serve(c, value) ==
    IF value.t \in {"[]interface{}", "[]interface{}(nil)"} /\ Len(value.ss) > 0
    THEN IF value.ss[1].t = "string"
         THEN Execute(c, value.ss[1].s, Strings(Tail(value.ss)))
         ELSE ErrReturn(c, CmdOp("invalid", <<>>), InvalidCommandFormat)
    ELSE ErrReturn(c, CmdOp("invalid", <<>>), InvalidRequestFormat)

\* one turn of the loop of handleConnection: parser.Parse() reads a value
\* from the bytes received; an error ends the connection, a panic in the
\* parser ends the process and with it every connection
HandleRequest(c) ==
    /\ pc[c] = "idle"
    /\ inbuf[c] # <<>>
    /\ LET p == Parse(inbuf[c])
       IN  CASE p.status = "ok" ->
                    /\ inbuf' = [inbuf EXCEPT ![c] = p.rest]
                    /\ parsed' = [parsed EXCEPT ![c] = p.val]
                    /\ Serve(c, p.val)
             [] p.status = "error" ->
                    /\ pc' = [pc EXCEPT ![c] = "closed"]
                    /\ inbuf' = [inbuf EXCEPT ![c] = <<>>]
                    /\ ret' = NoRet
                    /\ UNCHANGED <<op, loc, parsed, listVars, strVars>>
             [] p.status = "panic" ->
                    /\ pc' = [x \in Conns |-> "closed"]
                    /\ inbuf' = [x \in Conns |-> <<>>]
                    /\ ret' = NoRet
                    /\ UNCHANGED <<op, loc, parsed, listVars, strVars>>

\* what a handler's result is as a Go value
HandlerValue(r) ==
    CASE r.kind \in {"pair", "timeout"} -> BLPopReturn(r)
      [] r.kind = "simple" -> GoString(OK)
      [] r.kind \in {"string", "bulk"} -> GoString(r.vals[1])
      [] r.kind = "nil" -> GoNil
      [] r.kind = "int" -> GoInt(r.vals[1])
      [] r.kind = "array" ->
             GoStrings([j \in 1..Len(r.vals) |-> ValStr(r.vals[j])])

\* the bytes handleConnection writes for what Execute returned
Written(r) ==
    IF r.kind = "error" THEN WriteSimpleString(r.vals[1])
    ELSE writeResponse(HandlerValue(r))

\* ------------------------------------------------------------ behaviours
\* the commands each connection sends: one may block (two where commands
\* run one by one), two may push, one may pop
Blockers == {"c1"}
SeqBlockers == {"c1", "c2"}
Pushers == {"c2", "c3"}
Poppers == {"c3"}

\* room for n more values, for another waiter
ValRoom(n, max) == nextVal + n - 1 <= max
WaiterRoom(max) == Len(wrec) + Cardinality(Scanning) < max

\* the steps of the commands under way
CmdStep ==
    \/ \E c \in Conns : PushWrite(c)
    \/ \E c \in Conns : NotifyStart(c)
    \/ \E c \in Conns : LpopRead(c)
    \/ \E c \in Conns : LpopWrite(c)
    \/ \E c \in Conns : Register(c)
    \/ \E c \in Conns : RecvResponse(c)

\* the steps of the timed wait, of the timeout goroutines and of the cleanup
\* goroutine
TimeStep ==
    \/ \E c \in Conns : AfterFire(c)
    \/ \E w \in 1..MaxWaiters : TimerFire(w)
    \/ CleanupRemove
    \/ CleanupClose

\* connections run concurrently: a command may begin whenever its
\* connection is idle, and all steps interleave freely
Next ==
    \/ \E c \in Pushers, cmd \in PushCmds, k \in Keys, n \in 1..MaxPush :
           ValRoom(n, MaxVal) /\ StartPush(c, cmd, k, n) /\ UNCHANGED netVars
    \/ \E c \in Poppers, k \in Keys : StartLPOP(c, k, FALSE, 0)
    \/ \E c \in Blockers, keys \in KeyLists, t \in Timeouts :
           WaiterRoom(MaxWaiters) /\ StartBLPOP(c, keys, t)
               /\ UNCHANGED netVars
    \/ CmdStep
    \/ TimeStep

Spec == Init /\ [][Next]_vars

\* one command at a time: a command begins only when no other command is
\* between its first and its last step (blocked BLPOP calls wait meanwhile)
Quiet == \A c \in Conns : pc[c] \in {"idle", "wait"}

\* the timed wait is left to the concurrent behaviours: a BLPOP that will
\* block is sent without timeout
SeqTimeouts(keys) ==
    IF \E j \in 1..Len(keys) : Get(listStorage, keys[j]) # <<>>
    THEN Timeouts ELSE {0}

SeqNext ==
    \/ \E c \in Pushers, cmd \in PushCmds, k \in Keys, n \in 1..MaxPush :
           Quiet /\ ValRoom(n, SeqMaxVal) /\ StartPush(c, cmd, k, n)
               /\ UNCHANGED netVars
    \/ \E c \in Poppers, k \in Keys : Quiet /\ StartLPOP(c, k, FALSE, 0)
    \/ \E c \in Poppers, k \in Keys, n \in PopCounts :
           Quiet /\ StartLPOP(c, k, TRUE, n)
    \/ \E c \in SeqBlockers, keys \in KeyLists :
           \E t \in SeqTimeouts(keys) :
               Quiet /\ WaiterRoom(MaxWaiters) /\ StartBLPOP(c, keys, t)
                   /\ UNCHANGED netVars
    \/ CmdStep

SeqSpec == Init /\ [][SeqNext]_vars

\* one connection blocks, on both keys, and two push: the blocked call is
\* the only popper of its keys.  The two pushers are interchangeable: a
\* single push is c2's, and c3 pushes while a push of c2 is under way.
WakeNext ==
    \/ \E cmd \in PushCmds, k \in Keys, n \in 1..MaxPush :
           ValRoom(n, MaxVal) /\ StartPush("c2", cmd, k, n)
               /\ UNCHANGED netVars
    \/ \E cmd \in PushCmds, k \in Keys, n \in 1..MaxPush :
           /\ ValRoom(n, MaxVal)
           /\ pc["c2"] # "idle"
           /\ StartPush("c3", cmd, k, n) /\ UNCHANGED netVars
    \/ \E t \in Timeouts :
           WaiterRoom(WakeWaiters) /\ StartBLPOP("c1", <<"k1", "k2">>, t)
               /\ UNCHANGED netVars
    \/ CmdStep
    \/ TimeStep

\* the Go scheduler runs every goroutine that can run: a command under way,
\* a timeout goroutine and the cleanup goroutine are not held up forever.
\* Nothing obliges a client to send a command.
Fairness ==
    /\ \A c \in Conns : WF_vars(PushWrite(c) \/ NotifyStart(c) \/ LpopRead(c)
                                  \/ LpopWrite(c) \/ Register(c)
                                  \/ RecvResponse(c) \/ AfterFire(c))
    /\ \A w \in 1..MaxWaiters : WF_vars(TimerFire(w))
    /\ WF_vars(CleanupRemove)
    /\ WF_vars(CleanupClose)

WakeSpec == Init /\ [][WakeNext]_vars /\ Fairness

\* one connection blocks and one pushes
TimedNext ==
    \/ \E cmd \in PushCmds, k \in Keys, n \in 1..MaxPush :
           ValRoom(n, MaxVal) /\ StartPush("c2", cmd, k, n)
               /\ UNCHANGED netVars
    \/ \E keys \in KeyLists, t \in Timeouts :
           WaiterRoom(WakeWaiters) /\ StartBLPOP("c1", keys, t)
               /\ UNCHANGED netVars
    \/ CmdStep
    \/ TimeStep

TimedSpec == Init /\ [][TimedNext]_vars /\ Fairness

\* the list commands alone, one at a time: pushes, pops with and without
\* count, LRANGE with every pair of indices up to MaxIdx, LLEN.  LRANGE and
\* LLEN change nothing, so a client reads at the start and after each
\* command that is not itself a read.
Readers == {"c1"}
Indexes == (0 - MaxIdx)..MaxIdx
AfterRead == ret.op.cmd \in {"LRANGE", "LLEN"}

ListNext ==
    \/ \E c \in Pushers, cmd \in PushCmds, k \in Keys, n \in 1..MaxPush :
           Quiet /\ ValRoom(n, SeqMaxVal) /\ StartPush(c, cmd, k, n)
               /\ UNCHANGED netVars
    \/ \E c \in Poppers, k \in Keys : Quiet /\ StartLPOP(c, k, FALSE, 0)
    \/ \E c \in Poppers, k \in Keys, n \in PopCounts :
           Quiet /\ StartLPOP(c, k, TRUE, n)
    \/ \E c \in Readers, k \in Keys, start \in Indexes, stop \in Indexes :
           Quiet /\ ~AfterRead /\ LRangeHandler(c, k, start, stop)
               /\ UNCHANGED netVars
    \/ \E c \in Readers, k \in Keys :
           Quiet /\ ~AfterRead /\ LLenHandler(c, k)
    \/ \E c \in Conns : PushWrite(c)
    \/ \E c \in Conns : NotifyStart(c)
    \/ \E c \in Conns : LpopWrite(c)

ListSpec == Init /\ [][ListNext]_vars

\* the string commands, one at a time, while time passes
StrNext ==
    \/ \E c \in Conns, k \in StrKeys, v \in StrValues :
           Quiet /\ StartSET(c, k, v, FALSE, 0) /\ UNCHANGED netVars
    \/ \E c \in Conns, k \in StrKeys, v \in StrValues, px \in PxValues :
           Quiet /\ StartSET(c, k, v, TRUE, px) /\ UNCHANGED netVars
    \/ \E c \in Conns, k \in StrKeys : Quiet /\ StartGET(c, k)
        /\ UNCHANGED netVars
    \/ \E c \in Conns : SetDelete(c)
    \/ \E c \in Conns : GetCheck(c)
    \/ \E c \in Conns : GetPlain(c)
    \/ Tick

StrSpec == Init /\ [][StrNext]_vars

\* one connection sends BLPOP with any keys and any last argument, one
\* pushes, one command at a time.  The BLPOP calls that block are left to
\* the other behaviours: a call the handler accepts is sent when one of its
\* keys holds a value.
ArgKeyLists == KeyLists \cup {<<>>}
TimeoutStrs == {<<"0">>, <<"1">>, <<"+", "1">>, <<"-", "1">>, <<"-", "2">>,
                <<"1", ".", "5">>, <<"x">>, <<"-">>, <<>>}
BadTimeout(timeoutStr) == ~Atoi(timeoutStr).ok \/ Atoi(timeoutStr).n < 0

ArgNext ==
    \/ \E cmd \in PushCmds, k \in Keys, n \in 1..MaxPush :
           Quiet /\ ValRoom(n, MaxVal) /\ StartPush("c2", cmd, k, n)
               /\ UNCHANGED netVars
    \/ \E keys \in ArgKeyLists, timeoutStr \in TimeoutStrs :
           /\ Quiet
           /\ \/ keys = <<>>
              \/ BadTimeout(timeoutStr)
              \/ \E j \in 1..Len(keys) : Get(listStorage, keys[j]) # <<>>
           /\ BLPopExecute("c1", keys, timeoutStr) /\ UNCHANGED netVars
    \/ \E c \in Conns : PushWrite(c)
    \/ \E c \in Conns : NotifyStart(c)
    \/ \E c \in Conns : LpopRead(c)
    \/ \E c \in Conns : LpopWrite(c)

ArgSpec == Init /\ [][ArgNext]_vars

\* a connection serves the requests it has received; what it has received
\* is fixed at the start, and the store is empty then
\* longest payload of a bulk string, largest integer, in the values parsed
MaxBulk == 2
MaxInt == 11

\* all strings over the bytes of S that are at most n long
Strs(S, n) == UNION {[1..m -> S] : m \in 0..n}

\* strings.ToLower of an upper-case letter, and the spellings of a name in
\* upper and lower case
LowerByte(ch) == LowerCase[CHOOSE j \in 1..26 : UpperCase[j] = ch]
RECURSIVE Variants(_)
Variants(name) ==
    IF Len(name) = 0 THEN {<<>>}
    ELSE {<<ch>> \o v : ch \in {name[1], LowerByte(name[1])},
                        v \in Variants(Tail(name))}

\* a request as a client writes it: the array of the bulk strings words
Request(words) == WriteArray(words)

\* arguments a client may send with each registered command
ArgsOf(name) ==
    CASE name = Names.PING -> {<<>>, <<(<<"a">>)>>, <<(<<"a">>), <<"b">>>>}
      [] name = Names.ECHO -> {<<>>, <<(<<"a">>)>>, <<(<<"a">>), <<"b">>>>}
      [] name = Names.SET -> {<<(<<"k">>)>>, <<(<<"k">>), <<"a">>>>}
      [] name = Names.GET -> {<<>>, <<(<<"k">>)>>}
      [] name \in {Names.RPUSH, Names.LPUSH} ->
             {<<KeyStr("k1")>>, <<KeyStr("k1"), ValStr(1)>>,
              <<KeyStr("k2"), ValStr(1), ValStr(2)>>}
      [] name = Names.LRANGE ->
             {<<KeyStr("k1"), <<"0">>>>, <<KeyStr("k1"), <<"x">>, <<"1">>>>,
              <<KeyStr("k1"), <<"0">>, <<"-", "1">>>>}
\* names that are not registered
UnknownNames == {<<"F", "O", "O">>, <<"f", "o", "o">>, <<"L", "L", "E", "N">>,
                 <<"P", "I", "N", "G", "X">>, <<"P", "I", "N">>, <<>>}
NamedRequests ==
    UNION {{Request(<<v>> \o args) :
                v \in Variants(name), args \in ArgsOf(name)} :
               name \in Registered}
    \cup {Request(<<v>> \o args) :
              v \in UnknownNames, args \in {<<>>, <<(<<"a">>)>>}}

\* argument lists of SET, of every length up to five
SetArgs ==
    LET options == {<<"P", "X">>, <<"p", "x">>, <<"P", "x">>, <<"E", "X">>,
                    <<"P">>}
        numbers == {<<"2">>, <<"-", "1">>, <<"x">>, <<>>}
    IN  {<<>>, <<(<<"k">>)>>, <<(<<"k">>), <<"a">>>>}
        \cup {<<(<<"k">>), <<"a">>, o>> : o \in options}
        \cup {<<(<<"k">>), <<"a">>, o, n>> : o \in options, n \in numbers}
        \cup {<<(<<"k">>), <<"a">>, o, n, <<"z">>>> :
                  o \in options, n \in numbers}
SetRequests == {Request(<<Names.SET>> \o args) : args \in SetArgs}

\* the values the writer encodes, each followed by more bytes or by none
Encodings ==
    {WriteSimpleString(s) : s \in Strs({"a", "-"}, MaxBulk)}
    \cup {WriteBulkString(s) : s \in Strs({"a", "$", "\r", "\n"}, MaxBulk)}
    \cup {WriteInteger(n) : n \in (0 - MaxInt)..MaxInt}
    \cup {WriteArray(arr) : arr \in Strs({<<>>, <<"a">>, <<"\r", "\n">>}, 2)}
    \cup {WriteBulkNil, WriteNullArray}
Followers == {<<>>, <<"+">>, <<":", "1", "\r", "\n">>}
WrittenValues == {e \o f : e \in Encodings, f \in Followers}

\* bulk strings with every length in the header from -MaxBulk - 1 on, with
\* every payload of the byte a, followed by CR LF, by two other bytes, by
\* less
BulkLengths == (0 - MaxBulk - 1)..MaxBulk
BulkEnds == {CRLF, <<"a", "a">>, <<"\r">>, <<>>}
BulkInput(length, s, e) == <<"$">> \o Itoa(length) \o CRLF \o s \o e
BulkInputs ==
    {BulkInput(length, s, e) :
         length \in BulkLengths, s \in Strs({"a"}, MaxBulk), e \in BulkEnds}

\* other values that are no requests, and bytes that are no values
OtherInputs ==
    {<<"*", "0">> \o CRLF, <<"*", "1">> \o CRLF \o <<":", "1">> \o CRLF,
     <<"*", "-", "2">> \o CRLF, <<"?">> \o CRLF, <<"$", "x">> \o CRLF,
     <<"*", "2">> \o CRLF \o WriteBulkString(Names.PING),
     <<"+", "a">>, <<"*", "2">> \o CRLF \o WriteBulkString(Names.ECHO)
                                  \o <<":", "1">> \o CRLF}

\* two requests sent one behind the other
FirstRequests ==
    {Request(<<<<"F", "O", "O">>>>), Request(<<Names.ECHO>>),
     Request(<<Names.SET, <<"k">>>>), Request(<<Names.GET>>),
     Request(<<Names.SET, <<"k">>, <<"a">>, PX, <<"x">>>>),
     Request(<<Names.SET, <<"k">>, <<"a">>, PX, <<"2">>>>),
     Request(<<Names.SET, <<"k">>, OK>>),
     Request(<<Names.SET, <<"k">>, PONG>>),
     Request(<<Names.RPUSH, KeyStr("k1"), ValStr(1)>>),
     <<"+", "a">> \o CRLF, <<"*", "0">> \o CRLF, <<"?">> \o CRLF}
SecondRequests ==
    {Request(<<Names.PING>>), Request(<<Names.GET, <<"k">>>>),
     Request(<<Names.ECHO, OK>>), Request(<<Names.ECHO, PONG>>),
     Request(<<Names.PING, OK>>),
     Request(<<Names.LRANGE, KeyStr("k1"), <<"0">>, <<"-", "1">>>>)}
Pipelined == {a \o b : a \in FirstRequests, b \in SecondRequests}

WireInputs ==
    NamedRequests \cup SetRequests \cup WrittenValues \cup BulkInputs
        \cup OtherInputs \cup Pipelined \cup SecondRequests

WireInit ==
    /\ StoreInit
    /\ inbuf \in {[c \in Conns |-> IF c = "c1" THEN b ELSE <<>>] :
                      b \in WireInputs}
    /\ parsed = [c \in Conns |-> GoNil]

WireNext ==
    \/ \E c \in Conns : HandleRequest(c)
    \/ \E c \in Conns : SetDelete(c)
    \/ \E c \in Conns : GetCheck(c)
    \/ \E c \in Conns : GetPlain(c)
    \/ \E c \in Conns : PushWrite(c)
    \/ \E c \in Conns : NotifyStart(c)

WireSpec == WireInit /\ [][WireNext]_vars

\* the connection waits on the response slot of its waiter
Blocked(c) == pc[c] = "wait"

\* two connections block and one pushes.  c1 is the first to call BLPOP
\* and waits on k1 without timeout; while it is blocked, c3 calls BLPOP
\* with any keys and timeout and c2 pushes a value.
\* sync.Mutex hands the lock to a goroutine that keeps asking for it
\* (starvation mode), so the registration and the cleanup, which find the
\* lock taken by the pushes again and again, are strongly fair.
LockNext ==
    \/ Len(wrec) = 0 /\ StartBLPOP("c1", <<"k1">>, 0) /\ UNCHANGED netVars
    \/ \E cmd \in PushCmds, k \in Keys :
           /\ Blocked("c1")
           /\ ValRoom(1, MaxVal)
           /\ StartPush("c2", cmd, k, 1)
           /\ UNCHANGED netVars
    \/ \E keys \in KeyLists, t \in Timeouts :
           /\ Blocked("c1")
           /\ WaiterRoom(MaxWaiters)
           /\ StartBLPOP("c3", keys, t)
           /\ UNCHANGED netVars
    \/ CmdStep
    \/ TimeStep

LockFairness ==
    /\ \A c \in Conns : WF_vars(PushWrite(c) \/ NotifyStart(c) \/ LpopRead(c)
                                  \/ LpopWrite(c) \/ RecvResponse(c)
                                  \/ AfterFire(c))
    /\ \A c \in {"c1", "c3"} : SF_vars(Register(c))
    /\ \A w \in 1..MaxWaiters : WF_vars(TimerFire(w))
    /\ SF_vars(CleanupRemove)
    /\ WF_vars(CleanupClose)

LockSpec == Init /\ [][LockNext]_vars /\ LockFairness

\* many clients time out together.  Besides the three connections there are
\* clients that are not followed one by one: n of them called BLPOP k2 with
\* a timeout, their timeouts have elapsed at the same time and their
\* timeout goroutines have handed the waiters to s.waiterCleanup, which the
\* cleanup goroutine has not begun to drain.  n fills the channel, or leaves
\* one place.  c1 then calls BLPOP k1 with a timeout, again and again, and
\* nothing is pushed.
CrowdSizes == {CleanupCap - 1, CleanupCap}

CrowdWaiter ==
    [Keys |-> <<"k2">>, Timeout |-> 1, Response |-> <<>>, closed |-> FALSE,
     owner |-> NoConn, timer |-> "fired", delivered |-> 0]

CrowdInit ==
    \E n \in CrowdSizes :
        /\ listStorage = EmptyMap
        /\ wrec = [w \in 1..n |-> CrowdWaiter]
        /\ waiters = Put(EmptyMap, "k2", [w \in 1..n |-> w])
        /\ waiterCleanup = [w \in 1..n |-> w]
        /\ mu = NoConn
        /\ cleaner = 0
        /\ pc = [c \in Conns |-> "idle"]
        /\ op = [c \in Conns |-> NoOp]
        /\ loc = [c \in Conns |-> NoLoc]
        /\ ret = NoRet
        /\ nextVal = 1
        /\ storage = EmptyMap
        /\ expireStorage = EmptyMap
        /\ now = 0
        /\ inbuf = [c \in Conns |-> <<>>]
        /\ parsed = [c \in Conns |-> GoNil]

\* the waiters of the calls of connection c
Owned(c) == {w \in 1..Len(wrec) : wrec[w].owner = c}

CrowdNext ==
    \/ \E t \in {x \in Timeouts : UseTimeout(x)} :
           /\ Cardinality(Owned("c1")) + Cardinality(Scanning) < WakeWaiters
           /\ StartBLPOP("c1", <<"k1">>, t)
           /\ UNCHANGED netVars
    \/ Register("c1")
    \/ RecvResponse("c1")
    \/ AfterFire("c1")
    \/ \E w \in 1..Len(wrec) : TimerFire(w)
    \/ CleanupRemove
    \/ CleanupClose

\* Weak fairness of the cleanup goroutine's receive and of the caller's
\* return, written out: the step is taken again and again unless it is
\* impossible again and again.  CleanupDue is the guard of CleanupRemove and
\* CleanupTaken holds of its steps alone; ReturnDue(c) is the guard of
\* RecvResponse(c) \/ AfterFire(c) and Returned(c) holds of their steps.
CleanupDue == cleaner = 0 /\ Len(waiterCleanup) > 0 /\ mu = NoConn
CleanupTaken ==
    CleanupDue /\ Len(waiterCleanup') < Len(waiterCleanup) /\ UNCHANGED pc
ReturnDue(c) ==
    /\ pc[c] = "wait"
    /\ \/ Len(wrec[loc[c].w].Response) > 0
       \/ wrec[loc[c].w].closed
       \/ op[c].useTimeout /\ AfterOver(wrec[loc[c].w].timer)
Returned(c) == pc[c] = "wait" /\ pc'[c] = "idle"

CrowdFairness ==
    /\ WF_vars(Register("c1"))
    /\ ([]<>(~ReturnDue("c1")) \/ []<><<Returned("c1")>>_vars)
    /\ WF_vars(\E w \in 1..Len(wrec) : TimerFire(w))
    /\ ([]<>(~CleanupDue) \/ []<><<CleanupTaken>>_vars)
    /\ WF_vars(CleanupClose)

CrowdSpec == CrowdInit /\ [][CrowdNext]_vars /\ CrowdFairness

\* one connection sends commands of every kind through the registry, with
\* arguments the handlers accept and arguments they refuse, and calls
\* BLPopHandler with any keys and any last argument, as in ArgNext; another
\* sets at the same time, and the commands under way take their steps
PushArgs ==
    {<<KeyStr(k)>> \o [j \in 1..n |-> ValStr(nextVal + j - 1)] :
         k \in Keys, n \in {m \in 0..MaxPush : ValRoom(m, MaxVal)}}
ErrSetArgs ==
    {<<(<<"k">>)>>, <<(<<"k">>), <<"a">>>>, <<(<<"k">>), <<"a">>, PX>>,
     <<(<<"k">>), <<"a">>, PX, <<"2">>>>, <<(<<"k">>), <<"a">>, PX, <<"x">>>>,
     <<(<<"k">>), <<"a">>, <<"E", "X">>, <<"2">>>>}
ErrTimeoutStrs == {<<"0">>, <<"-", "1">>, <<"x">>}
ErrArgsOf(name) ==
    CASE name = Names.SET -> ErrSetArgs
      [] name \in {Names.RPUSH, Names.LPUSH} -> PushArgs
      [] OTHER -> ArgsOf(name)

ErrNext ==
    \/ \E name \in Registered \cup UnknownNames :
           \E args \in IF name \in Registered THEN ErrArgsOf(name)
                        ELSE {<<>>} :
               /\ pc["c1"] = "idle"
               /\ Execute("c1", name, args)
               /\ UNCHANGED netVars
    \/ \E keys \in {<<>>, <<"k1", "k2">>}, timeoutStr \in ErrTimeoutStrs :
           /\ \/ keys = <<>>
              \/ BadTimeout(timeoutStr)
              \/ \E j \in 1..Len(keys) : Get(listStorage, keys[j]) # <<>>
           /\ BLPopExecute("c1", keys, timeoutStr) /\ UNCHANGED netVars
    \/ \E hasPx \in BOOLEAN :
           StartSET("c2", <<"k">>, <<"b">>, hasPx, 2) /\ UNCHANGED netVars
    \/ \E c \in Conns : SetDelete(c)
    \/ \E c \in Conns : GetCheck(c)
    \/ \E c \in Conns : GetPlain(c)
    \/ \E c \in Conns : PushWrite(c)
    \/ \E c \in Conns : NotifyStart(c)
    \/ \E c \in Conns : LpopRead(c)
    \/ \E c \in Conns : LpopWrite(c)

ErrSpec == Init /\ [][ErrNext]_vars

\* the string commands of three connections on one key, each connection a
\* goroutine of its own: c1 sets the key without PX, c2 with PX, c3 gets it.
\* SET and GET take no lock, so the two map operations of a SET and the
\* look-up and the check of a GET interleave with the steps of the others
RaceNext ==
    \/ StartSET("c1", "s1", "a", FALSE, 0) /\ UNCHANGED netVars
    \/ \E px \in PxValues :
           StartSET("c2", "s1", "b", TRUE, px) /\ UNCHANGED netVars
    \/ StartGET("c3", "s1") /\ UNCHANGED netVars
    \/ \E c \in Conns : SetDelete(c)
    \/ \E c \in Conns : GetCheck(c)
    \/ \E c \in Conns : GetPlain(c)
    \/ Tick

RaceSpec == Init /\ [][RaceNext]_vars

\* ================================================================ claims
\* a push on key k has written the list and has not yet begun its wake
\* attempt
PushPending(k) ==
    \E p \in Conns : op[p].cmd \in PushCmds /\ op[p].key = k /\ pc[p] = "notify"

\* C1: the failed scan of a BLPOP and the registration of its waiter are one
\* indivisible step with respect to pushes: at the step that registers the
\* waiter, no watched list is non-empty through pushes that have all made
\* their wake attempt already (and so found no such waiter to wake).
C1_ScanRegisterAtomic ==
    [][\A c \in Conns :
          (pc[c] = "register" /\ pc'[c] = "wait") =>
              \A j \in 1..Len(op[c].keys) :
                  Get(listStorage, op[c].keys[j]) # <<>> =>
                      PushPending(op[c].keys[j])]_vars

\* C2: the list mutation of a push and its wake attempt are one atomic
\* step: while a push has written its list and not begun its wake attempt,
\* no other connection reads a list that holds a pushed element.
C2_PushWakeAtomic ==
    [][\A p \in Conns : \A d \in Conns \ {p} :
          (op[p].cmd \in PushCmds /\ pc[p] = "notify"
                /\ loc'[d].lst # loc[d].lst) =>
              Range(loc'[d].lst) \cap Range(op[p].vals) = {}]_vars

\* C3: per-key FIFO: a push on k serves the waiter that registered earliest
\* among those in waiters[k] (every waiter left in the queue registered
\* later), and a waiter on the single key k served by a push of one value to
\* the empty list k is handed (k, that value); so W1..Wn blocked in that
\* order on k receive the 1st..nth pushed value.
C3_FifoService ==
    (ret.op.cmd \in PushCmds /\ ret.w # 0) =>
        /\ \A x \in Range(Get(waiters, ret.op.key)) : ret.w < x
        /\ ret.w \in 1..Len(wrec)
        /\ (wrec[ret.w].Keys = <<ret.op.key>> /\ Len(ret.op.vals) = 1
                /\ ret.res = IntRes(1)) =>
               wrec[ret.w].Response =
                   <<BLPopResult(ret.op.key, ret.op.vals[1])>>

\* two waiters were blocked on one key and a push of one value served the
\* first, leaving the second registered
C3_Witness ==
    /\ ret.op.cmd \in PushCmds /\ ret.w = 1
    /\ Get(waiters, ret.op.key) = <<2>>
    /\ wrec[1].Keys = <<ret.op.key>> /\ wrec[2].Keys = <<ret.op.key>>
    /\ wrec[1].Response = <<BLPopResult(ret.op.key, ret.op.vals[1])>>

\* C4: a push that finds waiters[k] non-empty wakes exactly one waiter, the
\* head of the queue: the push that took a waiter from the queue hands it
\* one element.
C4_WakeExactlyOne ==
    (ret.op.cmd \in PushCmds /\ ret.w # 0) => Len(ret.sent) = 1

\* C5: no double delivery: over its whole life a waiter has at most one
\* (key, value) pair placed on its response channel.
C5_NoDoubleDelivery ==
    \A w \in 1..Len(wrec) :
        wrec[w].delivered <= 1 /\ Len(wrec[w].Response) <= 1

\* a waiter on two keys has just been served by the push of one connection
\* while the push of another connection to its other key awaits its wake
\* attempt
C5_Witness ==
    /\ ret.op.cmd \in PushCmds /\ ret.w \in 1..Len(wrec)
    /\ wrec[ret.w].Keys = <<"k1", "k2">> /\ wrec[ret.w].delivered = 1
    /\ \E d \in Conns \ {ret.conn} :
          /\ op[d].cmd \in PushCmds /\ pc[d] = "notify"
          /\ op[d].key \in Keys \ {ret.op.key}

\* index of the first key of keys whose list is non-empty, 0 if there is none
RECURSIVE FirstNonEmpty(_, _, _)
FirstNonEmpty(ls, keys, j) ==
    IF j > Len(keys) THEN 0
    ELSE IF Get(ls, keys[j]) # <<>> THEN j
    ELSE FirstNonEmpty(ls, keys, j + 1)

\* the step from ls to ls2 removes the head of list k and nothing else
PopsHeadOnly(ls, ls2, k) ==
    /\ Get(ls2, k) = Tail(Get(ls, k))
    /\ \A x \in Keys \ {k} : Get(ls2, x) = Get(ls, x)

\* C6: key priority on wake-up: the value a push hands to the waiter it wakes
\* is the head of the list of the first key of the waiter's keys that is
\* non-empty at that moment, whichever key was pushed, and the lists of all
\* other keys are left unchanged.
C6_KeyPriorityOnWake ==
    [][\A c \in Conns :
          (op[c].cmd \in PushCmds /\ pc[c] \in {"lpop_r", "lpop_w"}
                /\ pc'[c] = "idle" /\ ret'.sent # <<>>) =>
              LET keys == wrec[loc[c].w].Keys
                  j == FirstNonEmpty(listStorage, keys, 1)
              IN  /\ j # 0
                  /\ ret'.sent = <<BLPopResult(keys[j],
                                               Head(listStorage[keys[j]]))>>
                  /\ wrec'[loc[c].w].Response = ret'.sent
                  /\ PopsHeadOnly(listStorage, listStorage', keys[j])]_vars

\* a push to k2 woke a waiter that was handed the head of list k1
C6_Witness ==
    /\ ret.op.cmd \in PushCmds /\ ret.op.key = "k2"
    /\ Len(ret.sent) = 1 /\ ret.sent[1].key = "k1"

\* C7: BLPOP fast path: for any timeout, a BLPOP whose keys include a
\* non-empty list returns, without registering a waiter, the pair (k, head
\* of list k) for the first such k in argument order, removing that one
\* element and nothing else; it goes on to register only when every list is
\* empty.
C7_FastPath ==
    [][\A c \in Conns :
          LET o == IF pc[c] = "idle" THEN op'[c] ELSE op[c]
              j == FirstNonEmpty(listStorage, o.keys, 1)
          IN  /\ (o.cmd = "BLPOP" /\ pc[c] \in {"idle", "lpop_r", "lpop_w"}
                     /\ pc'[c] = "idle" /\ ret'.conn = c) =>
                    /\ j # 0
                    /\ ret'.res = BLPopResult(o.keys[j],
                                              Head(listStorage[o.keys[j]]))
                    /\ PopsHeadOnly(listStorage, listStorage', o.keys[j])
                    /\ waiters' = waiters
              /\ (o.cmd = "BLPOP" /\ pc[c] # "register"
                     /\ pc'[c] = "register") => j = 0
              /\ (pc[c] = "register" /\ pc'[c] = "wait") => j = 0]_vars

\* a BLPOP with a timeout found its first key empty and returned the head of
\* the second, whose list keeps its other element
C7_Witness ==
    /\ ret.op.cmd = "BLPOP" /\ ret.op.useTimeout /\ ret.w = 0
    /\ ret.res.kind = "pair" /\ ret.res.key = "k2"
    /\ Len(Get(listStorage, "k2")) = 1

\* C8: a BLPOP with timeout 0 never returns timeout, and a push to a watched
\* key after the call began is delivered to it: with no other popper and all
\* pushes finished, the call is not left waiting with an empty response
\* channel beside a non-empty watched list.
C8_ZeroTimeoutServed ==
    /\ (ret.op.cmd = "BLPOP" /\ ~ret.op.useTimeout) => ret.res # TimeoutRes
    /\ \A c \in Conns :
          (Quiet /\ pc[c] = "wait" /\ ~op[c].useTimeout
                 /\ wrec[loc[c].w].Response = <<>>) =>
              \A j \in 1..Len(op[c].keys) :
                  Get(listStorage, op[c].keys[j]) = <<>>

\* C9: BLPOP deadline: a blocked BLPOP with timeout T > 0 returns timeout
\* only when T has elapsed since the call, returns something else only when
\* a push delivered to it, and always eventually returns.
C9_Deadline ==
    /\ [][\A c \in Conns :
            (pc[c] = "wait" /\ pc'[c] = "idle") =>
                IF ret'.res = TimeoutRes
                THEN op[c].useTimeout /\ wrec[loc[c].w].timer = "fired"
                ELSE wrec[loc[c].w].delivered = 1]_vars
    /\ \A c \in Conns : (pc[c] = "wait" /\ op[c].useTimeout) ~> (pc[c] = "idle")

\* a blocked BLPOP with a timeout has returned timeout with no push made
C9_Witness ==
    /\ ret.op.cmd = "BLPOP" /\ ret.op.useTimeout /\ ret.w # 0
    /\ ret.res = TimeoutRes
    /\ listStorage = EmptyMap /\ \A c \in Conns : pc[c] = "idle"

\* C10: at the moment a blocked BLPOP call returns, with a value or with
\* timeout, its waiter is in no waiters[k] queue.
C10_ReturnedWaiterRetired ==
    (ret.op.cmd = "BLPOP" /\ ret.w # 0) =>
        \A k \in DOMAIN waiters : ret.w \notin Range(waiters[k])

\* C11: list operations are atomic across connections: every write of a list
\* (by a push, by LPOP, by the scans of BLPOP) is computed from the contents
\* the list has at the moment of the write, so no pushed value is lost and no
\* element is popped twice
C11_ListOpsAtomic ==
    [][\A c \in Conns :
          (pc[c] \in {"push_w", "lpop_w"} /\ pc'[c] # pc[c])
              => LET k == IF pc[c] = "push_w" THEN op[c].key
                          ELSE CurKey(op[c], loc[c])
                 IN  loc[c].lst = Get(listStorage, k)]_vars

\* the push of connection c writes the list / returns finding no waiter on
\* its key
PushWrites(c, cmd) ==
    op[c].cmd = cmd /\ pc[c] = "push_w" /\ pc'[c] = "notify"
PushReturnsUnwoken(c, cmd) ==
    /\ op[c].cmd = cmd /\ pc[c] = "notify" /\ pc'[c] = "idle"
    /\ Get(waiters, op[c].key) = <<>>

\* what a push that found no waiter leaves behind: LRANGE key 0 -1 is what
\* it was after the write, and the reply is its length
PushReplyIsLength(c) ==
    LET k == op[c].key
    IN  /\ LRANGE(listStorage', k, 0, -1) = LRANGE(listStorage, k, 0, -1)
        /\ ret'.res = IntRes(Len(LRANGE(listStorage', k, 0, -1)))
        /\ ret'.res = IntRes(loc[c].newlen)

C13_RPushOrderLaw ==
    [][\A c \in Conns :
          /\ PushWrites(c, "RPUSH")
                => LET k == op[c].key
                       L == LRANGE(listStorage, k, 0, -1)
                   IN  /\ LRANGE(listStorage', k, 0, -1) = L \o op[c].vals
                       /\ loc'[c].newlen = Len(L) + Len(op[c].vals)
          /\ PushReturnsUnwoken(c, "RPUSH") => PushReplyIsLength(c)]_vars

\* an RPUSH of two values behind a list of one element has returned 3
C13_Witness ==
    /\ ret.op.cmd = "RPUSH" /\ Len(ret.op.vals) = 2 /\ ret.w = 0
    /\ ret.res = IntRes(3)
    /\ Len(Get(listStorage, ret.op.key)) = 3
    /\ SubSeq(listStorage[ret.op.key], 2, 3) = ret.op.vals

\* C14: an LPOP command on the list L of key k returns, without count, L[0]
\* (null when L is empty or k missing); with a count c <= 0 the empty
\* sequence; with c > 0 the leftmost min(c, len L) elements; what it returns
\* followed by LRANGE k 0 -1 afterwards is L, and no other key changes
C14_LPopLaw ==
    [][ret'.op.cmd = "LPOP"
          => LET o == ret'.op
                 r == ret'.res
                 L == LRANGE(listStorage, o.key, 0, -1)
                 n == IF o.count <= 0 THEN 0 ELSE Min(o.count, Len(L))
             IN  /\ r.vals \o LRANGE(listStorage', o.key, 0, -1) = L
                 /\ \A k \in Keys \ {o.key} :
                        /\ (k \in DOMAIN listStorage')
                               = (k \in DOMAIN listStorage)
                        /\ Get(listStorage', k) = Get(listStorage, k)
                 /\ IF o.hasCount THEN r = ArrayRes(SubSeq(L, 1, n))
                    ELSE IF L = <<>> THEN r = NilRes
                    ELSE r = BulkRes(L[1])]_vars

\* LPOP k 2 on a list of three elements has returned two and left one
C14_Witness ==
    /\ ret.op.cmd = "LPOP" /\ ret.op.hasCount /\ ret.op.count = 2
    /\ Len(ret.res.vals) = 2
    /\ Len(Get(listStorage, ret.op.key)) = 1

\* C15: no key of the list map holds an empty list: a pop that drains a
\* list removes its key
C15_NoEmptyList ==
    \A k \in DOMAIN listStorage : Len(listStorage[k]) > 0

\* an LPOP with count has just drained a list of two elements
C15_Witness ==
    /\ ret.op.cmd = "LPOP" /\ ret.op.hasCount
    /\ Len(ret.res.vals) = 2
    /\ ret.op.key \notin DOMAIN listStorage

\* the rule of the specification for lrange on a list (missing: the key has
\* no list): negative indices get len added, start is clamped to [0, len]
\* and stop to [-1, len-1]; empty when start > stop, start >= len or the
\* list is missing, else the elements start..stop inclusive
Clamp(x, lo, hi) == IF x < lo THEN lo ELSE IF x > hi THEN hi ELSE x
SpecLrange(list, missing, start, stop) ==
    LET len == Len(list)
        s0 == IF start < 0 THEN start + len ELSE start
        e0 == IF stop < 0 THEN stop + len ELSE stop
        s1 == Clamp(s0, 0, len)
        e1 == Clamp(e0, 0 - 1, len - 1)
    IN  IF missing \/ s1 > e1 \/ s1 >= len THEN <<>>
        ELSE [j \in 1..(e1 - s1 + 1) |-> list[s1 + j]]

\* C16: LRANGE returns, for every list and every start and stop, what the
\* rule of the specification gives, and leaves the list map unchanged
C16_LRangeReference ==
    [][ret'.op.cmd = "LRANGE"
          => LET o == ret'.op
             IN  /\ listStorage' = listStorage
                 /\ ret'.res = ArrayRes(SpecLrange(Get(listStorage, o.key),
                                                   o.key \notin DOMAIN listStorage,
                                                   o.start, o.stop))]_vars

\* LRANGE k -2 4 on a list of three elements has returned its last two
C16_Witness ==
    /\ ret.op.cmd = "LRANGE" /\ ret.op.start = 0 - 2 /\ ret.op.stop = 4
    /\ Len(Get(listStorage, ret.op.key)) = 3
    /\ ret.res = ArrayRes(SubSeq(listStorage[ret.op.key], 2, 3))

\* C17: for every key LLEN is the number of elements of LRANGE key 0 -1, 0
\* for a missing key, and that is what an LLEN command returns
C17_LLenConsistency ==
    /\ \A k \in Keys :
           /\ LLEN(listStorage, k) = Len(LRANGE(listStorage, k, 0, 0 - 1))
           /\ k \notin DOMAIN listStorage => LLEN(listStorage, k) = 0
    /\ ret.op.cmd = "LLEN"
           => ret.res = IntRes(Len(LRANGE(listStorage, ret.op.key, 0, 0 - 1)))

\* LLEN has returned 3 for a list of three elements, and 0 for a missing key
C17_Witness ==
    /\ ret.op.cmd = "LLEN"
    /\ ret.res = IntRes(3)
    /\ \E k \in Keys : k \notin DOMAIN listStorage

\* C18: a GET that reads the clock at an instant now >= expiry of the entry
\* it found (now = expiry included) returns absent and removes the entry
C18_ExpiryBoundary ==
    (ret.op.cmd = "GET" /\ ret.obj # NoObj /\ ret.at >= ret.obj.ExpireAt)
        => /\ ret.res = NilRes
           /\ ret.op.key \notin DOMAIN expireStorage

\* C19: SET k v PX ttl stores v with the expiry now + ttl; a GET k before
\* the expiry returns v and leaves the maps as they are; a GET k after more
\* than ttl has elapsed returns absent and leaves k in neither map; a GET of
\* a key in neither map returns absent
C19_LazyExpiry ==
    [][/\ \A c \in Conns :
             (pc[c] = "idle" /\ pc'[c] = "set_d" /\ op'[c].hasPx)
                 => /\ op'[c].key \in DOMAIN expireStorage'
                    /\ expireStorage'[op'[c].key]
                           = [Value |-> op'[c].value,
                              ExpireAt |-> now + op'[c].px]
       /\ ret'.op.cmd = "GET"
             => LET k == ret'.op.key
                    had == k \in DOMAIN expireStorage
                IN  /\ (had /\ now < expireStorage[k].ExpireAt)
                          => /\ ret'.res = BulkRes(expireStorage[k].Value)
                             /\ expireStorage' = expireStorage
                             /\ storage' = storage
                    /\ (had /\ now > expireStorage[k].ExpireAt)
                          => /\ ret'.res = NilRes
                             /\ k \notin DOMAIN expireStorage'
                             /\ k \notin DOMAIN storage'
                    /\ (~had /\ k \notin DOMAIN storage)
                          => /\ ret'.res = NilRes
                             /\ expireStorage' = expireStorage
                             /\ storage' = storage]_vars

\* a GET has found an entry whose expiry had passed, removed it and returned
\* absent
C19_Witness ==
    /\ ret.op.cmd = "GET" /\ ret.res = NilRes
    /\ ret.obj # NoObj /\ ret.obj.ExpireAt < ret.at
    /\ ret.op.key \notin DOMAIN expireStorage

\* C20: SET overwrites whatever entry the key had: after SET k v without PX
\* the key has no expiry and every later GET k returns v, whatever the
\* instant; after SET k v PX t the key has no plain entry, so a GET k after
\* the expiry returns absent and not a value stored before
C20_SetOverwrites ==
    [][/\ ret'.op.cmd = "SET"
             => LET o == ret'.op
                IN  IF o.hasPx
                    THEN /\ o.key \notin DOMAIN storage'
                         /\ o.key \in DOMAIN expireStorage'
                         /\ expireStorage'[o.key].Value = o.value
                    ELSE /\ o.key \notin DOMAIN expireStorage'
                         /\ o.key \in DOMAIN storage'
                         /\ storage'[o.key] = o.value
       /\ ret'.op.cmd = "GET"
             => LET k == ret'.op.key
                IN  /\ (k \notin DOMAIN expireStorage /\ k \in DOMAIN storage)
                          => /\ ret'.res = BulkRes(storage[k])
                             /\ storage' = storage
                    /\ (k \in DOMAIN expireStorage
                        /\ now > expireStorage[k].ExpireAt)
                          => ret'.res = NilRes]_vars

\* a SET without PX has replaced an entry that carried an expiry, and that
\* expiry has passed
C20_Witness ==
    /\ ret.op.cmd = "SET" /\ ~ret.op.hasPx
    /\ ret.obj # NoObj /\ ret.obj.ExpireAt < now
    /\ ret.obj.Value # ret.op.value
    /\ Get(storage, ret.op.key) = ret.op.value

\* C21: a BLPOP whose last argument is a negative integer is answered with
\* the error 'timeout is negative', one whose last argument is no integer
\* with 'timeout is not a float or out of range'; in both cases the store is
\* left as it was and no waiter is made, whatever the watched lists hold
C21_BlpopArgErrors ==
    [][\A c \in Conns, keys \in KeyLists, timeoutStr \in TimeoutStrs :
           (BadTimeout(timeoutStr) /\ BLPopExecute(c, keys, timeoutStr)) =>
               /\ ret'.conn = c
               /\ ret'.res =
                      ErrRes(InvalidArgumentError(
                                 IF Atoi(timeoutStr).ok THEN TimeoutIsNegative
                                 ELSE TimeoutNotFloat))
               /\ UNCHANGED <<pc, listVars, netVars>>]_vars
\* a BLPOP with a negative timeout was refused while its first key held a
\* value
C21_Witness ==
    /\ ret.op.cmd = "BLPOP"
    /\ ret.op.args = <<(<<"-", "1">>)>>
    /\ ret.res = ErrRes(InvalidArgumentError(TimeoutIsNegative))
    /\ ret.op.keys # <<>>
    /\ Get(listStorage, ret.op.keys[1]) # <<>>

\* C22: the reply to a BLPOP that obtained a value is the Array of the two
\* bulk strings key and value; the reply to a BLPOP that timed out is the
\* null Array *-1
C22_BlpopReplyShape ==
    (ret.op.cmd = "BLPOP" /\ ret.res.kind \in {"pair", "timeout"}) =>
        writeResponse(BLPopReturn(ret.res)) =
            IF ret.res.kind = "pair"
            THEN <<"*", "2", "\r", "\n">>
                     \o <<"$">> \o Itoa(Len(KeyStr(ret.res.key)))
                     \o <<"\r", "\n">> \o KeyStr(ret.res.key) \o <<"\r", "\n">>
                     \o <<"$">> \o Itoa(Len(ValStr(ret.res.vals[1])))
                     \o <<"\r", "\n">> \o ValStr(ret.res.vals[1])
                     \o <<"\r", "\n">>
            ELSE <<"*", "-", "1", "\r", "\n">>

\* C23: a connection is closed only in a step in which its own parser failed
\* on the bytes it had received; and when a request ends in a command-level
\* error, that one error is what the connection replies, the connection is
\* back at the top of its loop and the bytes behind the request are still
\* there to be read
C23_ConnectionLifecycle ==
    [][/\ \A c \in Conns :
              (pc[c] # "closed" /\ pc'[c] = "closed") =>
                  /\ pc[c] = "idle"
                  /\ inbuf[c] # <<>>
                  /\ Parse(inbuf[c]).status # "ok"
       /\ \A c \in Conns :
              (HandleRequest(c) /\ ret'.res.kind = "error") =>
                  /\ ret'.conn = c
                  /\ pc'[c] = "idle"
                  /\ inbuf'[c] = Parse(inbuf[c]).rest]_vars

\* C24: what is written for a command-level error is the error's text,
\* which begins with -ERR and a blank, followed by CR LF: the first byte on
\* the wire is '-'
C24_ErrorReplyForm ==
    ret.res.kind = "error" =>
        /\ Written(ret.res) = ret.res.vals[1] \o <<"\r", "\n">>
        /\ Written(ret.res)[1] = "-"
        /\ SubSeq(ret.res.vals[1], 1, 5) = <<"-", "E", "R", "R", " ">>

\* the request connection c has parsed last names a command
Dispatched(c) ==
    /\ pc[c] # "closed"
    /\ parsed[c].t = "[]interface{}"
    /\ Len(parsed[c].ss) > 0
    /\ parsed[c].ss[1].t = "string"
\* the name as typed in that request, and the arguments sent with it
TypedName(c) == parsed[c].ss[1].s
TypedArgs(c) == Strings(Tail(parsed[c].ss))
\* the command connection c runs or has just answered
Observed(c) == IF pc[c] = "idle" THEN ret.op ELSE op[c]
\* the arguments the handler of that command was called with: all of them
\* where the handler answered by itself, and where it called the store,
\* those it handed on
SeenArgs(c) ==
    LET o == Observed(c)
    IN  IF pc[c] = "idle" /\ ret.res.kind \in {"error", "string"}
        THEN o.args
        ELSE CASE o.cmd = "SET" -> <<o.key, o.value>>
               [] o.cmd = "GET" -> <<o.key>>
               [] o.cmd \in PushCmds ->
                      <<KeyStr(o.key)>>
                          \o [j \in 1..Len(o.vals) |-> ValStr(o.vals[j])]
               [] o.cmd = "LRANGE" ->
                      <<KeyStr(o.key), Itoa(o.start), Itoa(o.stop)>>
\* the handler registered under a name
HandlerOf(name) ==
    CASE name = Names.PING -> "PING" [] name = Names.ECHO -> "ECHO"
      [] name = Names.SET -> "SET" [] name = Names.GET -> "GET"
      [] name = Names.RPUSH -> "RPUSH" [] name = Names.LPUSH -> "LPUSH"
      [] name = Names.LRANGE -> "LRANGE"

RejectedWith(c, text) ==
    pc[c] = "idle" /\ ret.conn = c /\ ret.res = ErrRes(text)
\* connection c has answered its request with an error
Rejected(c) == pc[c] = "idle" /\ ret.conn = c /\ ret.res.kind = "error"

\* C26: a SET request is accepted when it has two arguments, or four of
\* which the third is PX in any letter case and the fourth an integer; with
\* fewer than two it gets the wrong-arity error, with three or with another
\* option 'syntax error', with a PX value that is no integer 'value is not
\* an integer or out of range', and with more than four it is not accepted
C26_SetArgumentSyntax ==
    \A c \in Conns :
        (Dispatched(c) /\ TypedName(c) \in Variants(Names.SET)) =>
            LET args == TypedArgs(c)
            IN  CASE Len(args) < 2 ->
                         RejectedWith(c, WrongNumberOfArgumentsError(
                                             <<"s", "e", "t">>))
                  [] Len(args) = 2 -> ~Rejected(c)
                  [] Len(args) = 3 ->
                         RejectedWith(c, InvalidArgumentError(SyntaxError))
                  [] Len(args) = 4 ->
                         IF args[3] \notin Variants(PX)
                         THEN RejectedWith(c, InvalidArgumentError(SyntaxError))
                         ELSE IF ~Atoi(args[4]).ok
                         THEN RejectedWith(c,
                                  InvalidArgumentError(NotAnInteger))
                         ELSE ~Rejected(c)
                  [] Len(args) > 4 -> Rejected(c)

\* C27: the reply to ECHO m is the bulk string m and the reply to a GET
\* that finds the value v is the bulk string v, whatever m and v are; of
\* the strings a handler returns only SET's OK and the PONG of a PING
\* without arguments are written as simple strings
C27_BulkReplies ==
    /\ (ret.op.cmd \in {"ECHO", "GET"}
            /\ ret.res.kind \in {"string", "bulk"}) =>
           Written(ret.res) =
               <<"$">> \o Itoa(Len(ret.res.vals[1])) \o <<"\r", "\n">>
                   \o ret.res.vals[1] \o <<"\r", "\n">>
    /\ (ret.res.kind \in {"string", "bulk", "simple"}
            /\ Written(ret.res)[1] = "+") =>
           \/ ret.op.cmd = "SET"
           \/ ret.op.cmd = "PING" /\ ret.op.args = <<>>

\* the strings of the list arr as the values the parser yields for them
AsValues(arr) == [j \in 1..Len(arr) |-> GoString(arr[j])]
\* connection c reads, from the bytes e followed by the bytes f, the value v
\* and leaves f unread
ReadsBack(c, e, f, v) ==
    (inbuf[c] = e \o f /\ HandleRequest(c)) =>
        (parsed'[c] = v /\ inbuf'[c] = f /\ pc'[c] = "idle")

\* C28: from what the writer writes for a value, followed by any bytes, the
\* parser reads that value again and leaves the bytes that follow: a simple
\* string without CR and LF, a bulk string of any bytes, the empty one too,
\* the null bulk string, an integer, an array of bulk strings and the null
\* array
C28_RoundTrip ==
    [][\A c \in Conns, f \in Followers :
           /\ \A s \in Strs({"a", "-"}, MaxBulk) :
                  ReadsBack(c, WriteSimpleString(s), f, GoString(s))
           /\ \A s \in Strs({"a", "$", "\r", "\n"}, MaxBulk) :
                  ReadsBack(c, WriteBulkString(s), f, GoString(s))
           /\ ReadsBack(c, WriteBulkNil, f, GoNil)
           /\ \A n \in (0 - MaxInt)..MaxInt :
                  ReadsBack(c, WriteInteger(n), f, GoInt(n))
           /\ \A arr \in Strs({<<>>, <<"a">>, <<"\r", "\n">>}, 2) :
                  ReadsBack(c, WriteArray(arr), f, GoArray(AsValues(arr)))
           /\ ReadsBack(c, WriteNullArray, f, GoNilArray)]_vars
\* the bulk string of the two bytes CR LF, followed by one more byte, has
\* been read
C28_Witness ==
    /\ parsed["c1"] = GoString(<<"\r", "\n">>)
    /\ inbuf["c1"] = <<"+">>
    /\ pc["c1"] = "idle"
    /\ ret.res = ErrRes(InvalidRequestFormat)

\* C29: on the header of a bulk string with length L the parser returns an
\* error, and the connection alone is closed, when L < -1, when fewer than L
\* bytes follow, or when the L bytes are not followed by CR LF; it yields
\* the null bulk string when L = -1 and the L bytes when CR LF follows them
C29_BulkStringErrors ==
    [][\A c \in Conns, length \in BulkLengths, s \in Strs({"a"}, MaxBulk),
          e \in BulkEnds :
           (inbuf[c] = BulkInput(length, s, e) /\ HandleRequest(c)) =>
               IF length = -1
               THEN parsed'[c] = GoNil /\ inbuf'[c] = s \o e
               ELSE IF /\ length >= 0
                       /\ Len(s \o e) >= length + 2
                       /\ SubSeq(s \o e, length + 1, length + 2)
                              = <<"\r", "\n">>
               THEN /\ parsed'[c] = GoString(SubSeq(s \o e, 1, length))
                    /\ inbuf'[c] = SubSeq(s \o e, length + 3, Len(s \o e))
               ELSE /\ pc'[c] = "closed"
                    /\ \A d \in Conns \ {c} : pc'[d] = pc[d]]_vars


\* C30: a connection blocked in BLPOP, waiting on its response slot, does
\* not hold the store lock; while c1 is blocked, a push that has to notify,
\* the registration of another BLPOP and the cleanup of a waiter that timed
\* out each take the lock and complete.
C30_BlockedHoldsNoLock ==
    /\ [](\A c \in Conns : Blocked(c) => mu # c)
    /\ (Blocked("c1") /\ pc["c2"] = "notify") ~> (pc["c2"] = "idle")
    /\ (Blocked("c1") /\ pc["c3"] = "register") ~> (pc["c3"] # "register")
    /\ (Blocked("c1") /\ cleaner = 0 /\ Len(waiterCleanup) > 0)
           ~> (cleaner # 0 \/ Len(waiterCleanup) = 0)


\* both BLPOP callers are blocked, c3 having registered while c1 was, and
\* the push of c2 holds the lock to notify them
C30_Witness == Blocked("c1") /\ Blocked("c3") /\ mu = "c2"

\* the waiter w is in the queue of some key
Queued(w) == \E k \in DOMAIN waiters : w \in Range(waiters[k])

\* the call of c is blocked without timeout and an empty wake-up dropped its
\* waiter: it is in no queue, nothing was sent to it and no wake-up holds it
Dropped(c) ==
    /\ pc[c] = "wait"
    /\ wrec[loc[c].w].timer = "none"
    /\ ~Queued(loc[c].w)
    /\ wrec[loc[c].w].Response = <<>>
    /\ \A d \in Conns : ~(loc[d].ctx = "NOTIFY" /\ loc[d].w = loc[c].w)

\* C31: a wake-up that took the waiter W from the queues and found every
\* list of W.Keys empty leaves W in no queue and sends it nothing, and the
\* wake attempt of a later push to one of W's keys serves W.
C31_EmptyWakeUp ==
    [][\A c \in Conns :
          /\ (/\ pc[c] = "wait"
              /\ ret'.op.cmd \in PushCmds
              /\ ret'.w = loc[c].w
              /\ ret'.sent = <<>>)
                 => (/\ \A k \in DOMAIN waiters' :
                           loc[c].w \notin Range(waiters'[k])
                     /\ wrec'[loc[c].w].Response = wrec[loc[c].w].Response)
          /\ (/\ Dropped(c)
              /\ ret'.op.cmd \in PushCmds
              /\ pc[ret'.conn] = "notify"
              /\ ret'.op.key \in Range(wrec[loc[c].w].Keys))
                 => (/\ loc[c].w \in 1..Len(wrec')
                     /\ Len(wrec'[loc[c].w].Response) > 0)]_vars

\* how many times x occurs in the sequence q
Count(q, x) == Cardinality({j \in 1..Len(q) : q[j] = x})

\* the call of c is blocked and its waiter is live: nothing was sent to it
\* and the cleanup goroutine has not retired it
Live(c) ==
    /\ pc[c] = "wait"
    /\ wrec[loc[c].w].Response = <<>>
    /\ ~wrec[loc[c].w].closed
    /\ cleaner # loc[c].w

\* C32: whenever the store lock is free, the waiter of every blocked call is
\* in waiters[k] for every key k of its key list, once per occurrence of k,
\* and no waiter is in the queue of a key it does not watch.
C32_RegistrationAllOrNone ==
    mu = NoConn =>
        /\ \A c \in Conns :
               Live(c) => \A k \in Keys :
                              Count(Get(waiters, k), loc[c].w)
                                  = Count(wrec[loc[c].w].Keys, k)
        /\ \A k \in DOMAIN waiters : \A j \in 1..Len(waiters[k]) :
               /\ waiters[k][j] \in 1..Len(wrec)
               /\ k \in Range(wrec[waiters[k][j]].Keys)

\* C33: no key of the waiter registry maps to an empty queue.
C33_NoEmptyQueue ==
    \A k \in DOMAIN waiters : Len(waiters[k]) > 0

\* a wake-up has just taken the last waiter off the queue of the pushed key,
\* and the key is gone from the registry while the other key keeps a waiter
C33_Witness ==
    /\ ret.op.cmd \in PushCmds /\ ret.w # 0
    /\ ret.op.key \notin DOMAIN waiters
    /\ waiters # EmptyMap

\* C34: no element is lost by the blocking path.  A call that returns
\* timeout has no value in its response channel; a wake-up sends only to a
\* waiter whose call is still blocked on it, and the channel takes the value.
C34_NoElementLost ==
    [][/\ \A c \in Conns :
              (ret'.conn = c /\ ret'.res = TimeoutRes /\ pc[c] = "wait")
                  => wrec[loc[c].w].Response = <<>>
       /\ (ret'.op.cmd \in PushCmds /\ ret'.sent # <<>>)
              => /\ pc[wrec[ret'.w].owner] = "wait"
                 /\ loc[wrec[ret'.w].owner].w = ret'.w
                 /\ Len(wrec[ret'.w].Response) < ResponseCap]_vars

\* the timeout of the waiter w has elapsed, nothing was delivered to it and
\* it is still in a queue
Overdue(w) ==
    /\ w \in 1..Len(wrec)
    /\ wrec[w].timer = "fired"
    /\ wrec[w].delivered = 0
    /\ Queued(w)

\* C35: every waiter whose deadline has passed without delivery is
\* eventually in no waiter queue, however many waiters time out together.
\* A waiter that left the queues never comes back and the connection has
\* one waiter at a time, so the overdue waiters all leave the queues
\* exactly if every state with an overdue waiter in a queue leads to a
\* state with none.
C35_OverdueRemoved ==
    (\E w \in 1..Len(wrec) : Overdue(w))
        ~> (\A w \in 1..Len(wrec) : ~Overdue(w))

C37_LockNeverHeldWaiting ==
    /\ [](mu # NoConn => /\ pc[mu] \in {"lpop_r", "lpop_w"}
                         /\ loc[mu].ctx = "NOTIFY")
    /\ (mu # NoConn) ~> (mu = NoConn)
    /\ (pc["c2"] = "notify") ~> (pc["c2"] # "notify")
    /\ \A c \in {"c1", "c3"} : (pc[c] = "register") ~> Blocked(c)
    /\ (cleaner = 0 /\ Len(waiterCleanup) > 0 /\ mu # NoConn)
           ~> (cleaner # 0 \/ Len(waiterCleanup) = 0)

\* the wake-up of c2 holds the lock while the registration of c3 asks for it
C37_Witness ==
    /\ mu = "c2"
    /\ pc["c2"] \in {"lpop_r", "lpop_w"}
    /\ pc["c3"] = "register"

\* C38: a command that returns an error (wrong number of arguments, an
\* argument that is no integer, syntax error, negative timeout, unknown
\* command) leaves the two string maps, the list map and the registry of the
\* waiters as they were before it.
C38_ErrorsChangeNothing ==
    [][ret'.res.kind = "error"
          => /\ storage' = storage
             /\ expireStorage' = expireStorage
             /\ listStorage' = listStorage
             /\ waiters' = waiters
             /\ wrec' = wrec
             /\ waiterCleanup' = waiterCleanup]_vars

\* SET with PX and milliseconds that are no integer was refused while the
\* key had an entry and a list held a value
C38_Witness ==
    /\ ret.op.cmd = "SET"
    /\ ret.res.kind = "error"
    /\ ret.res.vals[1] = InvalidArgumentError(NotAnInteger)
    /\ storage # EmptyMap \/ expireStorage # EmptyMap
    /\ listStorage # EmptyMap

C40_OneMapPerKey ==
    /\ \A k \in StrKeys :
          ~(k \in DOMAIN storage /\ k \in DOMAIN expireStorage)
    /\ (ret.op.cmd = "GET" /\ ret.obj # NoObj /\ ret.res # NilRes)
           => ret.op.key \notin DOMAIN storage
====
